---- MODULE Spec2Model ----
(***************************************************************************)
(* Answer detection and highlight: the content script (qh_content.js,      *)
(* src/unnamed/part_000) as a state machine over a mutating document, and  *)
(* the page-world script (inject.js, src/unnamed/part_001) that extracts   *)
(* answer descriptors from the page's network traffic.                     *)
(*                                                                         *)
(* JavaScript strings are sequences of one-character strings, so that      *)
(* normalisation, substring search and selector escaping are computed      *)
(* character by character.  null is the reserved sequence Null.            *)
(***************************************************************************)
EXTENDS Integers, Sequences, FiniteSets, TLC

VARIABLES doc, marked, lastPayload, lastMarkTimestamp, mutationScheduled,
          rafQueue, now, trace, faults,
          data, info, wire, fetchCall, xhr, pageTrace,
          storage, registered, calls,
          popupStorage, popupView, popupRuns, outbox

\* the content script's state, and the faults injected into its DOM calls
contentVars == <<doc, marked, lastPayload, lastMarkTimestamp, mutationScheduled,
                 rafQueue, now, trace, faults>>

\* the page-world script's state
pageVars == <<data, info, wire, fetchCall, xhr, pageTrace>>

\* the service worker: chrome.storage.sync, the registration of the
\* interception script, and the invocations of its async functions
hostVars == <<storage, registered, calls>>

\* the popup: the keys of chrome.storage.sync it writes, its controls, the
\* invocations of its async handlers, and the actions of the messages it
\* sent to the service worker
popupVars == <<popupStorage, popupView, popupRuns, outbox>>

vars == <<contentVars, pageVars, hostVars, popupVars>>

---------------------------------------------------------------------------
(* Bounds of the model *)

\* element slots of the document (node identities)
MaxElems == 2

\* clock advances of the run
MaxTicks == 2

\* nodes of the JSON values given to the extraction runs
MaxNodes == 4

\* handleLoad listeners attached to the request object
\* generations above the located element in the chains of nested elements
MaxGenerations == 7

\* invocations of the service worker's async functions that may overlap
MaxCalls == 2

\* leaves beyond MAX_TEXT_ELEMENTS in the pages of many leaves, and the
\* leaves under one container of such a page
MaxBeyond == 3

GroupSize == 16

\* leaves of the small pages checked for search cost, and the leaves under
\* one container of such a page
MaxPage == 20

PageGroupSize == 64

\* invocations of the popup's handlers
MaxRuns == 2

MaxListeners == 2

---------------------------------------------------------------------------
(* CONFIG *)

MESSAGE_SOURCE == "quiz-helper"

MESSAGE_TYPE == "CORRECT"

AnswerTags == {"button", "a", "li"}

AnswerClasses == {"btn", "answer", "option", "list-group-item", "quiz__answer", "quiz-answer"}

TOKEN_ATTRIBUTES == {"data-token", "data-id", "data-answer-id", "data-key", "data-value"}

CORRECT_CLASS == "quiz-helper-correct"

MAX_PARENT_DEPTH == 6

MAX_CANDIDATES == 1500

MAX_TEXT_ELEMENTS == 200

MARK_DEBOUNCE == 100

---------------------------------------------------------------------------
(* JavaScript values *)

Null == <<"null">>

\* JavaScript truthiness of a string-or-null value: null and "" are falsy
Truthy(v) == v # Null /\ v # <<>>

Whitespace == {" ", "\t", "\n"}

ToLowerCase(c) ==
  CASE c = "P" -> "p"
    [] c = "A" -> "a"
    [] c = "F" -> "f"
    [] c = "R" -> "r"
    [] OTHER -> c

Take(s, n) == IF Len(s) <= n THEN s ELSE SubSeq(s, 1, n)

\* replace(/\s+/g, ' '): every maximal run of whitespace becomes one space
RECURSIVE CollapseWhitespace(_)
CollapseWhitespace(s) ==
  IF s = <<>> THEN <<>>
  ELSE IF Head(s) \in Whitespace
       THEN IF Len(s) > 1 /\ s[2] \in Whitespace
            THEN CollapseWhitespace(Tail(s))
            ELSE <<" ">> \o CollapseWhitespace(Tail(s))
       ELSE <<Head(s)>> \o CollapseWhitespace(Tail(s))

RECURSIVE TrimStart(_)
TrimStart(s) ==
  IF s # <<>> /\ Head(s) \in Whitespace THEN TrimStart(Tail(s)) ELSE s

RECURSIVE TrimEnd(_)
TrimEnd(s) ==
  IF s # <<>> /\ s[Len(s)] \in Whitespace
  THEN TrimEnd(SubSeq(s, 1, Len(s) - 1))
  ELSE s

\* (text || '').replace(/\s+/g, ' ').trim().toLowerCase()
NormalizeText(text) ==
  LET t == IF Truthy(text) THEN text ELSE <<>>
      c == TrimEnd(TrimStart(CollapseWhitespace(t)))
  IN [i \in 1..Len(c) |-> ToLowerCase(c[i])]

\* String.prototype.includes
Includes(s, part) ==
  \E i \in 0..(Len(s) - Len(part)) : SubSeq(s, i + 1, i + Len(part)) = part

---------------------------------------------------------------------------
(* Selector escaping: cssEscape and the selector parser that undoes it *)

HexDigits == {"0", "1", "2", "3", "4", "5", "6", "7", "8", "9", "a", "b", "c", "d", "e", "f"}

Digits == {"0", "1", "2", "3", "4", "5", "6", "7", "8", "9"}

\* charCodeAt(0).toString(16) for the characters of the model's alphabet
CharCode(c) ==
  CASE c = "4" -> <<"3", "4">>
    [] c = "2" -> <<"3", "2">>
    [] c = "7" -> <<"3", "7">>
    [] c = "\"" -> <<"2", "2">>
    [] c = "\\" -> <<"5", "c">>
    [] c = "\n" -> <<"a">>
    [] c = "\t" -> <<"9">>
    [] OTHER -> <<"?">>

CodeChars == {"4", "2", "7", "\"", "\\", "\n", "\t"}

FromCharCode(code) ==
  IF \E c \in CodeChars : CharCode(c) = code
  THEN CHOOSE c \in CodeChars : CharCode(c) = code
  ELSE "?"

\* CSS.escape: a leading digit and control characters are escaped as code
\* points, other non-identifier characters by a backslash
RECURSIVE CssEscapeNative(_, _)
CssEscapeNative(s, first) ==
  IF s = <<>> THEN <<>>
  ELSE LET c == Head(s)
           e == IF (first /\ c \in Digits) \/ c \in {"\n", "\t"}
                THEN <<"\\">> \o CharCode(c) \o <<" ">>
                ELSE IF c \in {"\"", "\\", " ", ","}
                     THEN <<"\\", c>>
                     ELSE <<c>>
       IN e \o CssEscapeNative(Tail(s), FALSE)

\* the fallback: replace(/[\0-\x1F\x7F"\\]/g, c => '\\' + code + ' ')
RECURSIVE CssEscapeFallback(_)
CssEscapeFallback(s) ==
  IF s = <<>> THEN <<>>
  ELSE LET c == Head(s)
           e == IF c \in {"\"", "\\", "\n", "\t"}
                THEN <<"\\">> \o CharCode(c) \o <<" ">>
                ELSE <<c>>
       IN e \o CssEscapeFallback(Tail(s))

\* window.CSS?.escape: present in every browser that offers the scripting
\* API the extension is installed through
HasCssEscape == TRUE

cssEscape(value) ==
  IF HasCssEscape THEN CssEscapeNative(value, TRUE) ELSE CssEscapeFallback(value)

RECURSIVE HexRun(_, _)
HexRun(s, n) ==
  IF n < 6 /\ Len(s) > n /\ s[n + 1] \in HexDigits THEN HexRun(s, n + 1) ELSE n

\* the value a quoted attribute selector "[attr=\"...\"]" compares with:
\* backslash escapes of the string are resolved by the selector parser
RECURSIVE CssStringValue(_)
CssStringValue(s) ==
  IF s = <<>> THEN <<>>
  ELSE IF Head(s) # "\\" THEN <<Head(s)>> \o CssStringValue(Tail(s))
  ELSE LET r == Tail(s) IN
       IF r = <<>> THEN <<>>
       ELSE IF Head(r) \in HexDigits
            THEN LET n == HexRun(r, 0)
                     rest == SubSeq(r, n + 1, Len(r))
                     after == IF rest # <<>> /\ Head(rest) \in Whitespace
                              THEN Tail(rest) ELSE rest
                 IN <<FromCharCode(SubSeq(r, 1, n))>> \o CssStringValue(after)
            ELSE <<Head(r)>> \o CssStringValue(Tail(r))

---------------------------------------------------------------------------
(* The document: a forest of elements under body.  doc maps the identity  *)
(* of each element in the document to its record; parent = 0 is body.     *)

Nodes == 1..MaxElems

NoElement == 0

Button(text) ==
  [tag |-> "button", classes |-> {}, role |-> "", attrs |-> {}, text |-> text]

\* the elements a page may insert: <button>Pa</button>, <button>Pa, F</button>
\* and <span data-id="42"> PA\t </span>
ElementKinds ==
  { Button(<<"P", "a">>),
    Button(<<"P", "a", ",", " ", "F">>),
    [tag |-> "span", classes |-> {}, role |-> "",
     attrs |-> {<<"data-id", <<"4", "2">> >>},
     text |-> <<" ", "P", "A", "\t", " ">>] }

Children(d, p) == {j \in DOMAIN d : d[j].parent = p}

SetMin(T) == CHOOSE x \in T : \A y \in T : x <= y

\* pre-order walk of the subtrees rooted at the elements of T
RECURSIVE Walk(_, _)
Walk(d, T) ==
  IF T = {} THEN <<>>
  ELSE LET i == SetMin(T)
       IN <<i>> \o Walk(d, Children(d, i)) \o Walk(d, T \ {i})

\* document order of all elements of body
DocumentOrder(d) == Walk(d, Children(d, 0))

Descendants(d, i) == {Walk(d, {i})[k] : k \in 1..Len(Walk(d, {i}))}

\* element.innerText || element.textContent: the text of the element and
\* of its descendants, in document order
RECURSIVE ConcatText(_, _)
ConcatText(d, order) ==
  IF order = <<>> THEN <<>>
  ELSE d[Head(order)].text \o ConcatText(d, Tail(order))

ElementText(d, i) == ConcatText(d, Walk(d, {i}))

FirstOf(s) == IF s = <<>> THEN NoElement ELSE Head(s)

\* element.matches(CONFIG.ANSWER_SELECTORS)
MatchesAnswerSelectors(e) ==
  \/ e.tag \in AnswerTags
  \/ e.role = "button"
  \/ e.classes \cap AnswerClasses # {}

---------------------------------------------------------------------------
(* Lookup *)

\* walks up from element through at most MAX_PARENT_DEPTH nodes (the
\* element included) to the first that matches the answer selectors; body
\* and html, above the top-level elements, never match
RECURSIVE ClosestFrom(_, _, _, _)
ClosestFrom(d, node, i, element) ==
  IF i < MAX_PARENT_DEPTH /\ node # NoElement
  THEN IF MatchesAnswerSelectors(d[node])
       THEN node
       ELSE ClosestFrom(d, d[node].parent, i + 1, element)
  ELSE element

findClosestAnswer(d, element) == ClosestFrom(d, element, 0, element)

\* document.querySelector('[data-token="t"], [data-id="t"], ...')
findByToken(d, token) ==
  IF ~Truthy(token) THEN NoElement
  ELSE LET value == CssStringValue(cssEscape(token))
           hits == SelectSeq(DocumentOrder(d),
                     LAMBDA i : \E a \in TOKEN_ATTRIBUTES : <<a, value>> \in d[i].attrs)
       IN FirstOf(hits)

Candidates(d) ==
  Take(SelectSeq(DocumentOrder(d), LAMBDA i : MatchesAnswerSelectors(d[i])),
       MAX_CANDIDATES)

\* a version that scans every leaf of the body
LeavesUncapped(d) == SelectSeq(DocumentOrder(d), LAMBDA i : Children(d, i) = {})

Leaves(d) ==
  Take(SelectSeq(DocumentOrder(d), LAMBDA i : Children(d, i) = {}),
       MAX_TEXT_ELEMENTS)

\* a version that passes over elements carrying the marker class
ExactMatchesUnmarked(d, order, search) ==
  SelectSeq(order, LAMBDA i : /\ NormalizeText(ElementText(d, i)) = search
                              /\ CORRECT_CLASS \notin d[i].classes)

ExactMatches(d, order, search) ==
  SelectSeq(order, LAMBDA i : NormalizeText(ElementText(d, i)) = search)

PartialMatches(d, order, search) ==
  SelectSeq(order, LAMBDA i : Includes(NormalizeText(ElementText(d, i)), search))

\* a single pass that takes the first candidate matching either way
findByTextOnePass(d, text) ==
  IF ~Truthy(text) THEN NoElement
  ELSE FirstOf(PartialMatches(d, Candidates(d), NormalizeText(text)))

findByText(d, text) ==
  IF ~Truthy(text) THEN NoElement
  ELSE LET search == NormalizeText(text)
           exact == ExactMatches(d, Candidates(d), search)
           partial == PartialMatches(d, Candidates(d), search)
           leaf == ExactMatches(d, Leaves(d), search)
       IN IF exact # <<>> THEN Head(exact)
          ELSE IF partial # <<>> THEN Head(partial)
          ELSE FirstOf(leaf)

\* the position of x in s
IndexIn(s, x) == CHOOSE k \in 1..Len(s) : s[k] = x

\* elements the loops of findByText look at: the candidates compared in the
\* exact pass and in the substring pass, the elements of the body (all the
\* elements of d) the filter of the leaf fallback is called on, and the
\* leaves compared
TextExaminations(d, text) ==
  IF ~Truthy(text) THEN 0
  ELSE LET search == NormalizeText(text)
           candidates == Candidates(d)
           exact == ExactMatches(d, candidates, search)
           partial == PartialMatches(d, candidates, search)
           leaves == Leaves(d)
           leaf == ExactMatches(d, leaves, search)
       IN IF exact # <<>> THEN IndexIn(candidates, Head(exact))
          ELSE IF partial # <<>>
          THEN Len(candidates) + IndexIn(candidates, Head(partial))
          ELSE Len(candidates) + Len(candidates) + Cardinality(DOMAIN d)
               + (IF leaf # <<>> THEN IndexIn(leaves, Head(leaf)) ELSE Len(leaves))

\* nodes the loop of findClosestAnswer calls matches() on
RECURSIVE WalkInspections(_, _, _)
WalkInspections(d, node, i) ==
  IF i < MAX_PARENT_DEPTH /\ node # NoElement
  THEN IF MatchesAnswerSelectors(d[node]) THEN i + 1
       ELSE WalkInspections(d, d[node].parent, i + 1)
  ELSE i

---------------------------------------------------------------------------
(* Payloads and relay messages *)

NoPayload == [isObject |-> FALSE, correctText |-> Null, correctToken |-> Null]

Descriptor(text, token) ==
  [isObject |-> TRUE, correctText |-> text, correctToken |-> token]

\* the descriptors the page world relays (at least one field is set)
Descriptors ==
  { Descriptor(<<"P", "a">>, Null),
    Descriptor(Null, <<"4", "2">>),
    Descriptor(<<"p", "A", " ">>, <<"4", "2">>) }

Envelope(fromWindow, hasData, source, type, payload) ==
  [fromWindow |-> fromWindow, hasData |-> hasData, source |-> source,
   type |-> type, payload |-> payload]

\* window 'message' events: the relay's envelopes, an envelope with the tags
\* and no payload, and messages of other senders or with other tags
Messages ==
  {Envelope(TRUE, TRUE, MESSAGE_SOURCE, MESSAGE_TYPE, p) : p \in Descriptors \cup {NoPayload}}
  \cup { Envelope(FALSE, TRUE, MESSAGE_SOURCE, MESSAGE_TYPE, Descriptor(<<"P", "a">>, Null)),
         Envelope(TRUE, FALSE, "", "", NoPayload),
         Envelope(TRUE, TRUE, "page", MESSAGE_TYPE, Descriptor(<<"P", "a">>, Null)),
         Envelope(TRUE, TRUE, MESSAGE_SOURCE, "OTHER", Descriptor(<<"P", "a">>, Null)) }

---------------------------------------------------------------------------
(* Marking *)

\* what the last step did: which handler ran (a message the listener
\* dropped is "ignored"), the payload a receipt carried
\* and whether it replaced another, pending one, whether tryMarkCorrectAnswer was
\* called and on which payload, which lookups ran, the element located,
\* the element the class was added to, whether the selector query threw,
\* and whether an error left the handler
NoTrace ==
  [op |-> "none", received |-> NoPayload, replaced |-> FALSE,
   invoked |-> FALSE, payload |-> NoPayload,
   ranToken |-> FALSE, ranText |-> FALSE, found |-> NoElement, target |-> NoElement,
   queryThrew |-> FALSE, threw |-> FALSE]

\* the document with the marker class in the class list of the elements
\* that carry it: classList.add(CONFIG.CSS.CORRECT_CLASS)
WithMarker(d, mk) ==
  [i \in DOMAIN d |->
     IF i \in mk THEN [d[i] EXCEPT !.classes = @ \cup {CORRECT_CLASS}] ELSE d[i]]

\* a version that leaves earlier markers in place
KeepPreviousHighlight(d, mk) == mk

\* removes the class from every element of the document that carries it
clearPreviousHighlight(d, mk) == mk \ DOMAIN d

markAsCorrect(d, mk, lm, t, element, addThrows) ==
  LET cleared == clearPreviousHighlight(d, mk)
      target == findClosestAnswer(d, element)
  IN IF addThrows
     THEN [marked |-> cleared, lastMarkTimestamp |-> lm, target |-> NoElement]
     ELSE [marked |-> cleared \cup {target}, lastMarkTimestamp |-> t, target |-> target]

\* a version that tries the text before the token
LocateTextFirst(d, payload) ==
  LET byText == IF Truthy(payload.correctText)
                THEN findByText(d, payload.correctText) ELSE NoElement
      ranToken == byText = NoElement /\ Truthy(payload.correctToken)
  IN [ranToken |-> ranToken, ranText |-> Truthy(payload.correctText),
      element |-> IF byText # NoElement THEN byText
                  ELSE IF ranToken THEN findByToken(d, payload.correctToken)
                  ELSE NoElement]

\* the lookup of tryMarkCorrectAnswer: token first, then text
Locate(d, payload) ==
  LET byToken == IF Truthy(payload.correctToken)
                 THEN findByToken(d, payload.correctToken)
                 ELSE NoElement
      ranText == byToken = NoElement /\ Truthy(payload.correctText)
  IN [ranToken |-> Truthy(payload.correctToken), ranText |-> ranText,
      element |-> IF byToken # NoElement THEN byToken
                  ELSE IF ranText THEN findByText(d, payload.correctText)
                  ELSE NoElement]

\* a version that keeps the payload after a successful highlight
PayloadKept(payload, element) == payload

\* a version that drops the payload after every attempt
PayloadDropped(payload, element) == NoPayload

\* state.lastPayload after an attempt: cleared when an element was found
PayloadAfterAttempt(payload, element) ==
  IF element # NoElement THEN NoPayload ELSE payload

\* queryThrows: document.querySelector throws in findByToken, which has no
\* handler, nor has any of its callers
tryMarkCorrectAnswer(d, mk, payload, lm, t, addThrows, queryThrows) ==
  IF ~payload.isObject
  THEN [marked |-> mk, lastPayload |-> payload, lastMarkTimestamp |-> lm,
        tr |-> [NoTrace EXCEPT !.invoked = TRUE]]
  ELSE IF Truthy(payload.correctToken) /\ queryThrows
  THEN [marked |-> mk, lastPayload |-> payload, lastMarkTimestamp |-> lm,
        tr |-> [NoTrace EXCEPT !.invoked = TRUE, !.payload = payload,
                !.ranToken = TRUE, !.queryThrew = TRUE, !.threw = TRUE]]
  ELSE LET loc == Locate(d, payload)
           m == IF loc.element # NoElement
                THEN markAsCorrect(d, mk, lm, t, loc.element, addThrows)
                ELSE [marked |-> mk, lastMarkTimestamp |-> lm, target |-> NoElement]
       IN [marked |-> m.marked,
           lastPayload |-> PayloadAfterAttempt(payload, loc.element),
           lastMarkTimestamp |-> m.lastMarkTimestamp,
           tr |-> [NoTrace EXCEPT !.invoked = TRUE, !.payload = payload,
                   !.ranToken = loc.ranToken, !.ranText = loc.ranText,
                   !.found = loc.element, !.target = m.target]]

---------------------------------------------------------------------------
(* Page world: JSON values *)

\* a parsed JSON value: t names its kind, beside the string's characters,
\* the number, the boolean, the array's items or the object's entries
\* <<key, value>> in iteration order
JNull == [t |-> "null"]

JBool(b) == [t |-> "boolean", bool |-> b]

JStr(s) == [t |-> "string", chars |-> s]

JNum(n) == [t |-> "number", num |-> n]

JArr(items) == [t |-> "array", items |-> items]

JObj(entries) == [t |-> "object", entries |-> entries]

\* !x for a JSON value
Falsy(x) ==
  \/ x.t = "null"
  \/ x.t = "boolean" /\ ~x.bool
  \/ x.t = "number" /\ x.num = 0
  \/ x.t = "string" /\ x.chars = <<>>

\* typeof x === 'object' (true of null as well)
TypeofObject(x) == x.t \in {"object", "array", "null"}

DigitChars == <<"0", "1", "2", "3", "4", "5", "6", "7", "8", "9">>

RECURSIVE NatToString(_)
NatToString(n) ==
  IF n < 10 THEN <<DigitChars[n + 1]>>
  ELSE NatToString(n \div 10) \o <<DigitChars[(n % 10) + 1]>>

\* String(value) for a string or an integer
StringOf(value) ==
  IF value.t = "string" THEN value.chars
  ELSE IF value.num < 0 THEN <<"-">> \o NatToString(0 - value.num)
  ELSE NatToString(value.num)

---------------------------------------------------------------------------
(* Page world: CONFIG.PATTERNS *)

WordCorrect == <<"c", "o", "r", "r", "e", "c", "t">>

WordRight == <<"r", "i", "g", "h", "t">>

WordTrue == <<"t", "r", "u", "e">>

WordText == <<"t", "e", "x", "t">>

WordAnswer == <<"a", "n", "s", "w", "e", "r">>

WordCorrectText ==
  <<"c", "o", "r", "r", "e", "c", "t", "_", "t", "e", "x", "t">>

WordCorrectAnswer ==
  <<"c", "o", "r", "r", "e", "c", "t", "a", "n", "s", "w", "e", "r">>

WordRightText == <<"r", "i", "g", "h", "t", "_", "t", "e", "x", "t">>

WordAnswerTrueText ==
  <<"a", "n", "s", "w", "e", "r", "_", "t", "r", "u", "e", "_", "t", "e",
    "x", "t">>

WordToken == <<"t", "o", "k", "e", "n">>

WordId == <<"i", "d">>

WordAnswerToken ==
  <<"a", "n", "s", "w", "e", "r", "_", "t", "o", "k", "e", "n">>

LineTerminators == {"\n", "\r"}

Lower(s) == [i \in 1..Len(s) |-> ToLowerCase(s[i])]

IndexesOf(s, w) ==
  {i \in 1..(Len(s) - Len(w) + 1) : SubSeq(s, i, i + Len(w) - 1) = w}

\* /(a).*(b)/: an occurrence of a, then an occurrence of b, and no line
\* terminator between them
Follows(s, a, b) ==
  \E i \in IndexesOf(s, a), j \in IndexesOf(s, b) :
    /\ j >= i + Len(a)
    /\ \A p \in (i + Len(a))..(j - 1) : s[p] \notin LineTerminators

\* CONFIG.PATTERNS.TEXT.test(key), case-insensitive
TextPattern(key) ==
  LET k == Lower(key)
  IN \/ \E a \in {WordCorrect, WordRight, WordTrue}, b \in {WordText, WordAnswer} :
          Follows(k, a, b)
     \/ Includes(k, WordCorrectText)
     \/ Includes(k, WordCorrectAnswer)
     \/ Includes(k, WordRightText)
     \/ Includes(k, WordAnswerTrueText)

\* CONFIG.PATTERNS.TOKEN.test(key), case-insensitive
TokenPattern(key) ==
  LET k == Lower(key)
  IN \/ Includes(k, WordToken)
     \/ Includes(k, WordId)
     \/ Follows(k, WordAnswer, WordId)
     \/ Includes(k, WordAnswerToken)

---------------------------------------------------------------------------
(* Page world: extractCorrectInfo *)

NoCaptures == [correctText |-> Null, correctToken |-> Null]

\* if (typeof value === 'string' && !correctText) correctText = value
CaptureText(acc, key, value) ==
  IF TextPattern(key) /\ value.t = "string" /\ ~Truthy(acc.correctText)
  THEN [acc EXCEPT !.correctText = value.chars]
  ELSE acc

\* a version that takes a token only from a string value
CaptureTokenOfString(acc, key, value) ==
  IF TokenPattern(key) /\ value.t = "string" /\ ~Truthy(acc.correctToken)
  THEN [acc EXCEPT !.correctToken = value.chars]
  ELSE acc

\* if ((typeof value === 'string' || typeof value === 'number') &&
\*     !correctToken) correctToken = String(value)
CaptureToken(acc, key, value) ==
  IF TokenPattern(key) /\ value.t \in {"string", "number"} /\ ~Truthy(acc.correctToken)
  THEN [acc EXCEPT !.correctToken = StringOf(value)]
  ELSE acc

RECURSIVE walkObject(_, _)
RECURSIVE WalkItems(_, _)
RECURSIVE WalkEntries(_, _)

\* for (const item of obj) walkObject(item)
WalkItems(acc, items) ==
  IF items = <<>> THEN acc
  ELSE WalkItems(walkObject(acc, Head(items)), Tail(items))

\* for (const [key, value] of Object.entries(obj)): the key is tested
\* against both patterns, then a composite value is descended into
WalkEntries(acc, entries) ==
  IF entries = <<>> THEN acc
  ELSE LET key == Head(entries)[1]
           value == Head(entries)[2]
           captured == CaptureToken(CaptureText(acc, key, value), key, value)
           walked == IF TypeofObject(value) /\ value.t # "null"
                     THEN walkObject(captured, value)
                     ELSE captured
       IN WalkEntries(walked, Tail(entries))

\* the captures after walking obj, starting from the captures acc
walkObject(acc, obj) ==
  IF Falsy(obj) \/ ~TypeofObject(obj) THEN acc
  ELSE IF obj.t = "array" THEN WalkItems(acc, obj.items)
  ELSE WalkEntries(acc, obj.entries)

\* a version that returns the captures when either is a string, empty or not
InfoIfCaptured(acc) ==
  IF acc.correctText # Null \/ acc.correctToken # Null
  THEN Descriptor(acc.correctText, acc.correctToken)
  ELSE NoPayload

\* a version that returns the pair of captures whatever they are
InfoAlways(acc) == Descriptor(acc.correctText, acc.correctToken)

\* if (correctText || correctToken) return { correctText, correctToken };
\* return null
InfoOrNull(acc) ==
  IF Truthy(acc.correctText) \/ Truthy(acc.correctToken)
  THEN Descriptor(acc.correctText, acc.correctToken)
  ELSE NoPayload

extractCorrectInfo(value) ==
  IF Falsy(value) \/ ~TypeofObject(value) THEN NoPayload
  ELSE InfoOrNull(walkObject(NoCaptures, value))

---------------------------------------------------------------------------
(* Page world: JSON.parse *)

JsonWhitespace == {" ", "\t", "\n", "\r"}

RECURSIVE SkipWhitespace(_)
SkipWhitespace(s) ==
  IF s # <<>> /\ Head(s) \in JsonWhitespace THEN SkipWhitespace(Tail(s)) ELSE s

StartsWith(s, prefix) ==
  Len(s) >= Len(prefix) /\ SubSeq(s, 1, Len(prefix)) = prefix

Drop(s, n) == SubSeq(s, n + 1, Len(s))

\* the result of parsing a prefix of a text: the value and the text left
ParseFailure == [ok |-> FALSE, value |-> JNull, rest |-> <<>>]

Parsed(value, rest) == [ok |-> TRUE, value |-> value, rest |-> rest]

\* the characters of a string literal after its opening quote; of the
\* escapes, those of the model's alphabet
RECURSIVE ParseChars(_, _)
ParseChars(s, acc) ==
  IF s = <<>> THEN ParseFailure
  ELSE IF Head(s) = "\"" THEN Parsed(JStr(acc), Tail(s))
  ELSE IF Head(s) \in {"\n", "\t", "\r"} THEN ParseFailure
  ELSE IF Head(s) # "\\" THEN ParseChars(Tail(s), Append(acc, Head(s)))
  ELSE IF Len(s) < 2 THEN ParseFailure
  ELSE IF s[2] \in {"\"", "\\", "/"} THEN ParseChars(Drop(s, 2), Append(acc, s[2]))
  ELSE IF s[2] = "n" THEN ParseChars(Drop(s, 2), Append(acc, "\n"))
  ELSE IF s[2] = "t" THEN ParseChars(Drop(s, 2), Append(acc, "\t"))
  ELSE IF s[2] = "r" THEN ParseChars(Drop(s, 2), Append(acc, "\r"))
  ELSE ParseFailure

DigitValue(c) == CHOOSE d \in 0..9 : DigitChars[d + 1] = c

RECURSIVE ParseDigits(_, _)
ParseDigits(s, n) ==
  IF s # <<>> /\ Head(s) \in Digits
  THEN ParseDigits(Tail(s), 10 * n + DigitValue(Head(s)))
  ELSE Parsed(JNum(n), s)

\* an integer literal: an optional sign and digits without a leading zero
ParseNumber(s) ==
  LET negative == Head(s) = "-"
      digits == IF negative THEN Tail(s) ELSE s
  IN IF digits = <<>> \/ Head(digits) \notin Digits THEN ParseFailure
     ELSE IF Head(digits) = "0" /\ Len(digits) > 1 /\ digits[2] \in Digits
     THEN ParseFailure
     ELSE LET r == ParseDigits(digits, 0)
          IN IF negative THEN Parsed(JNum(0 - r.value.num), r.rest) ELSE r

\* obj[key] = value: a key already present keeps its place
SetEntry(entries, key, value) ==
  IF \E i \in 1..Len(entries) : entries[i][1] = key
  THEN [i \in 1..Len(entries) |->
          IF entries[i][1] = key THEN <<key, value>> ELSE entries[i]]
  ELSE Append(entries, <<key, value>>)

RECURSIVE ParseValue(_)
RECURSIVE ParseItems(_, _)
RECURSIVE ParseMembers(_, _)

\* the items of an array after '[' or ','
ParseItems(s, acc) ==
  LET r == ParseValue(s)
      t == SkipWhitespace(r.rest)
  IN IF ~r.ok \/ t = <<>> THEN ParseFailure
     ELSE IF Head(t) = "," THEN ParseItems(Tail(t), Append(acc, r.value))
     ELSE IF Head(t) = "]" THEN Parsed(JArr(Append(acc, r.value)), Tail(t))
     ELSE ParseFailure

\* the members of an object after '{' or ','
ParseMembers(s, acc) ==
  LET k == SkipWhitespace(s)
      key == IF k # <<>> /\ Head(k) = "\"" THEN ParseChars(Tail(k), <<>>) ELSE ParseFailure
      c == SkipWhitespace(key.rest)
      r == IF c # <<>> /\ Head(c) = ":" THEN ParseValue(Tail(c)) ELSE ParseFailure
      t == SkipWhitespace(r.rest)
  IN IF ~key.ok \/ ~r.ok \/ t = <<>> THEN ParseFailure
     ELSE IF Head(t) = "," THEN ParseMembers(Tail(t), SetEntry(acc, key.value.chars, r.value))
     ELSE IF Head(t) = "}" THEN Parsed(JObj(SetEntry(acc, key.value.chars, r.value)), Tail(t))
     ELSE ParseFailure

ParseValue(text) ==
  LET s == SkipWhitespace(text)
      inner == SkipWhitespace(Tail(s))
  IN IF s = <<>> THEN ParseFailure
     ELSE IF Head(s) = "\"" THEN ParseChars(Tail(s), <<>>)
     ELSE IF Head(s) = "[" THEN
            IF inner # <<>> /\ Head(inner) = "]" THEN Parsed(JArr(<<>>), Tail(inner))
            ELSE ParseItems(inner, <<>>)
     ELSE IF Head(s) = "{" THEN
            IF inner # <<>> /\ Head(inner) = "}" THEN Parsed(JObj(<<>>), Tail(inner))
            ELSE ParseMembers(inner, <<>>)
     ELSE IF Head(s) \in Digits \cup {"-"} THEN ParseNumber(s)
     ELSE IF StartsWith(s, <<"n", "u", "l", "l">>) THEN Parsed(JNull, Drop(s, 4))
     ELSE IF StartsWith(s, <<"t", "r", "u", "e">>) THEN Parsed(JBool(TRUE), Drop(s, 4))
     ELSE IF StartsWith(s, <<"f", "a", "l", "s", "e">>) THEN Parsed(JBool(FALSE), Drop(s, 5))
     ELSE ParseFailure

\* JSON.parse(text): ok is false where it throws a SyntaxError
JsonParse(text) ==
  LET r == ParseValue(text)
  IN IF r.ok /\ SkipWhitespace(r.rest) = <<>> THEN r ELSE ParseFailure

---------------------------------------------------------------------------
(* Page world: the inputs of the extraction runs *)

KeyCorrectText ==
  <<"c", "o", "r", "r", "e", "c", "t", "_", "t", "e", "x", "t">>

KeyAnswerToken ==
  <<"a", "n", "s", "w", "e", "r", "_", "t", "o", "k", "e", "n">>

KeyName == <<"n", "a", "m", "e">>

\* keys of the generated objects: one of the text class, one of the token
\* class, one of neither
ExtractKeys == {KeyCorrectText, KeyAnswerToken, KeyName}

ExtractLeaves == {JStr(<<>>), JStr(<<"A">>), JStr(<<"B">>), JNum(42), JNull}

\* the nodes of a value: a scalar is one node, an array or an object one
\* node more than its members
RECURSIVE NodeCount(_)
RECURSIVE NodeCountAll(_)
NodeCountAll(values) ==
  IF values = <<>> THEN 0
  ELSE NodeCount(Head(values)) + NodeCountAll(Tail(values))

NodeCount(value) ==
  IF value.t = "array" THEN 1 + NodeCountAll(value.items)
  ELSE IF value.t = "object"
  THEN 1 + NodeCountAll([i \in 1..Len(value.entries) |-> value.entries[i][2]])
  ELSE 1

\* the values one node deeper than value: it as the only item of an array
\* or as the value of the only entry of an object
Wrappings(value) ==
  {JArr(<<value>>)} \cup {JObj(<< <<key, value>> >>) : key \in ExtractKeys}

\* the values one scalar wider than value: a scalar item or entry (under a
\* key the object does not have) before or after its members
Widenings(value) ==
  IF value.t = "array"
  THEN UNION {{JArr(<<leaf>> \o value.items), JArr(Append(value.items, leaf))} :
                leaf \in ExtractLeaves}
  ELSE IF value.t = "object"
  THEN UNION {{JObj(<<entry>> \o value.entries), JObj(Append(value.entries, entry))} :
                entry \in {e \in ExtractKeys \X ExtractLeaves :
                             \A i \in 1..Len(value.entries) : value.entries[i][1] # e[1]}}
  ELSE {}

---------------------------------------------------------------------------
(* Page world: the traffic of the page and the state of the wrappers *)

ApplicationJson ==
  <<"a", "p", "p", "l", "i", "c", "a", "t", "i", "o", "n", "/", "j", "s",
    "o", "n">>

SOCKETIO_PREFIX == <<"4", "2">>

ContentTypeJson ==
  <<"a", "p", "p", "l", "i", "c", "a", "t", "i", "o", "n", "/", "j", "s",
    "o", "n", ";", " ", "c", "h", "a", "r", "s", "e", "t", "=", "u", "t",
    "f", "-", "8">>

ContentTypeHtml == <<"t", "e", "x", "t", "/", "h", "t", "m", "l">>

\* {"correct_text":"Berlin"}
BodyCorrectText ==
  <<"{", "\"", "c", "o", "r", "r", "e", "c", "t", "_", "t", "e", "x", "t",
    "\"", ":", "\"", "B", "e", "r", "l", "i", "n", "\"", "}">>

\* {"answer_token": 42}
BodyAnswerToken ==
  <<"{", "\"", "a", "n", "s", "w", "e", "r", "_", "t", "o", "k", "e", "n",
    "\"", ":", " ", "4", "2", "}">>

\* {"name":"x","items":[1,true]}
BodyNoAnswer ==
  <<"{", "\"", "n", "a", "m", "e", "\"", ":", "\"", "x", "\"", ",", "\"",
    "i", "t", "e", "m", "s", "\"", ":", "[", "1", ",", "t", "r", "u", "e",
    "]", "}">>

\* [{"name":"q"},{"data":{"rightAnswer":"A","id":7}}]
BodyNested ==
  <<"[", "{", "\"", "n", "a", "m", "e", "\"", ":", "\"", "q", "\"", "}",
    ",", "{", "\"", "d", "a", "t", "a", "\"", ":", "{", "\"", "r", "i",
    "g", "h", "t", "A", "n", "s", "w", "e", "r", "\"", ":", "\"", "A",
    "\"", ",", "\"", "i", "d", "\"", ":", "7", "}", "}", "]">>

\* 5
BodyScalar == <<"5">>

\* {"correct_text":
BodyMalformed ==
  <<"{", "\"", "c", "o", "r", "r", "e", "c", "t", "_", "t", "e", "x", "t",
    "\"", ":">>

\* 42["answer",{"correct_text":"Berlin"}]
FrameAnswer ==
  <<"4", "2", "[", "\"", "a", "n", "s", "w", "e", "r", "\"", ",", "{",
    "\"", "c", "o", "r", "r", "e", "c", "t", "_", "t", "e", "x", "t", "\"",
    ":", "\"", "B", "e", "r", "l", "i", "n", "\"", "}", "]">>

\* 42/quiz,["answers",{"id":7},null,{"correct_text":"A"}]
FrameTwoObjects ==
  <<"4", "2", "/", "q", "u", "i", "z", ",", "[", "\"", "a", "n", "s", "w",
    "e", "r", "s", "\"", ",", "{", "\"", "i", "d", "\"", ":", "7", "}",
    ",", "n", "u", "l", "l", ",", "{", "\"", "c", "o", "r", "r", "e", "c",
    "t", "_", "t", "e", "x", "t", "\"", ":", "\"", "A", "\"", "}", "]">>

\* 42["answer",{"correct_text"
FrameMalformed ==
  <<"4", "2", "[", "\"", "a", "n", "s", "w", "e", "r", "\"", ",", "{",
    "\"", "c", "o", "r", "r", "e", "c", "t", "_", "t", "e", "x", "t", "\"">>

\* 42{"correct_text":"A"}
FrameNoArray ==
  <<"4", "2", "{", "\"", "c", "o", "r", "r", "e", "c", "t", "_", "t", "e",
    "x", "t", "\"", ":", "\"", "A", "\"", "}">>

Bodies ==
  {BodyCorrectText, BodyAnswerToken, BodyNoAnswer, BodyNested, BodyScalar,
   BodyMalformed, FrameAnswer, FrameTwoObjects, FrameMalformed, FrameNoArray}

\* what the server sends in a run: the content-type header of its responses
\* (empty when the header is missing) and the text of the response body or
\* of the socket message
Wires ==
  [contentType : {ContentTypeJson, ContentTypeHtml, <<>>}, body : Bodies]

NoWire == [contentType |-> <<>>, body |-> <<>>]

\* how a call ended: "resolved" or "rejected" for a promise, "returned" or
\* "threw" for a call, with the value or the error
Outcome(kind, value) == [kind |-> kind, value |-> value]

NoOutcome == Outcome("none", "none")

\* a call of the wrapped fetch: awaiting the original, then (for a JSON
\* response) reading the clone, then settled
IdleFetch == [phase |-> "idle", original |-> NoOutcome, delivered |-> NoOutcome]

\* an XMLHttpRequest object: the handleLoad listeners attached to it and
\* whether a request is in flight
NewXhr == [listeners |-> 0, inFlight |-> FALSE]

\* what the last page-world step did: the handler, the fault injected into
\* it (the header accessor, clone(), the body read, extractCorrectInfo,
\* window.postMessage or addEventListener throws), the payloads it parsed,
\* the descriptors it handed to postCorrectAnswer, the outcome of the
\* original it wraps and the outcome its caller saw
NoPageTrace ==
  [op |-> "none", fault |-> "none", observed |-> <<>>, posts |-> <<>>,
   original |-> NoOutcome, result |-> NoOutcome]

\* the state of an extraction run before extractCorrectInfo is called
NotExtracted == [called |-> FALSE, result |-> NoPayload]

\* contentType.includes(CONFIG.CONTENT_TYPES.JSON)
IsJson(contentType) == Includes(contentType, ApplicationJson)

RECURSIVE NonNullInfos(_)
\* for each payload in order: info = extractCorrectInfo(payload);
\* if (info) postCorrectAnswer(info)
NonNullInfos(payloads) ==
  IF payloads = <<>> THEN <<>>
  ELSE LET i == extractCorrectInfo(Head(payloads))
       IN (IF i.isObject THEN <<i>> ELSE <<>>) \o NonNullInfos(Tail(payloads))

\* the descriptors a handler posts for the payloads it parsed; a throwing
\* extractCorrectInfo ends the handler's try block
PostsFor(payloads, fault) ==
  IF fault = "extract" THEN <<>> ELSE NonNullInfos(payloads)

\* the side channel of one JSON body: the payload parsed from it, if any
BodyPayloads(contentType, body, fault) ==
  IF fault \in {"headers", "clone", "read"} \/ ~IsJson(contentType) THEN <<>>
  ELSE LET r == JsonParse(body)
       IN IF r.ok THEN <<r.value>> ELSE <<>>

IndexOf(s, c) == CHOOSE i \in 1..Len(s) : s[i] = c /\ \A j \in 1..(i - 1) : s[j] # c

\* a version that hands the parsed array to extraction as a whole
SocketPayloadsWhole(message) ==
  IF StartsWith(message, SOCKETIO_PREFIX) /\ Includes(message, <<"[">>)
  THEN LET r == JsonParse(Drop(message, IndexOf(message, "[") - 1))
       IN IF r.ok THEN <<r.value>> ELSE <<>>
  ELSE IF StartsWith(message, <<"{">>) \/ StartsWith(message, <<"[">>)
  THEN LET r == JsonParse(message)
       IN IF r.ok THEN <<r.value>> ELSE <<>>
  ELSE <<>>

\* parseSocketMessage: the values it hands to extractCorrectInfo, in order
SocketPayloads(message) ==
  IF StartsWith(message, SOCKETIO_PREFIX) /\ Includes(message, <<"[">>)
  THEN LET r == JsonParse(Drop(message, IndexOf(message, "[") - 1))
       IN IF r.ok
          THEN SelectSeq(r.value.items, LAMBDA item : ~Falsy(item) /\ TypeofObject(item))
          ELSE <<>>
  ELSE IF StartsWith(message, <<"{">>) \/ StartsWith(message, <<"[">>)
  THEN LET r == JsonParse(message)
       IN IF r.ok THEN <<r.value>> ELSE <<>>
  ELSE <<>>

\* a version without the try block around the analysis of the response
FetchSettleUnguarded(original, fault) ==
  IF fault \in {"headers", "clone", "read", "extract"}
  THEN Outcome("rejected", fault)
  ELSE original

\* what the wrapped fetch settles with: every error of the analysis is
\* caught, the original's response is returned and its error thrown again
FetchSettle(original, fault) == original

\* how many times one load event makes handleLoad run
RECURSIVE Repeat(_, _)
Repeat(s, n) == IF n = 0 THEN <<>> ELSE s \o Repeat(s, n - 1)

---------------------------------------------------------------------------
(* Service worker: messages, storage and script registration *)

Undefined == [t |-> "undefined"]

\* Boolean(x)
ToBoolean(x) == x.t # "undefined" /\ ~Falsy(x)

VALID_ACTIONS ==
  {"startScrolling", "stopScrolling", "updateSpeed", "startFarm", "stopFarm",
   "startMine", "stopMine"}

\* a message of chrome.runtime.onMessage: whether it is an object at all,
\* whether typeof msg.action is 'string', the action, msg.enabled, msg.speed
Message(isObject, hasAction, action, enabled, speed) ==
  [isObject |-> isObject, hasAction |-> hasAction, action |-> action,
   enabled |-> enabled, speed |-> speed]

NoMessage == Message(FALSE, FALSE, "", Undefined, Undefined)

SetQuizMessages ==
  {Message(TRUE, TRUE, "setQuiz", e, Undefined) :
     e \in {JBool(TRUE), JBool(FALSE), Undefined, JStr(<<"o", "f", "f">>)}}

\* what the popup and the content scripts send, and what they do not
BackgroundMessages ==
  SetQuizMessages \cup
  { NoMessage,
    Message(TRUE, FALSE, "", Undefined, Undefined),
    Message(TRUE, TRUE, "updateSpeed", Undefined, JNum(0)),
    Message(TRUE, TRUE, "startFarm", Undefined, Undefined),
    Message(TRUE, TRUE, "dance", Undefined, Undefined) }

\* validateMessage(msg).valid
validateMessage(msg) == msg.isObject /\ msg.hasAction

\* normalizeSpeed: Number.isFinite(Number(speed)) ?
\* Math.max(1, Math.floor(num)) : 50, for an integer or a missing speed
normalizeSpeed(speed) ==
  IF speed.t = "number" THEN (IF speed.num < 1 THEN 1 ELSE speed.num) ELSE 50

\* {success, error?}; the error texts are named by their keys in
\* CONSTANTS.ERROR_MESSAGES
Success == [success |-> TRUE, error |-> ""]

Failure(error) == [success |-> FALSE, error |-> error]

\* the active tab found by chrome.tabs.query: none, or a tab whose URL
\* parses or not, with the hostname of the URL
Tab(present, parses, hostname) ==
  [present |-> present, parses |-> parses, hostname |-> hostname]

NoTab == Tab(FALSE, FALSE, <<>>)

HostMangabuff == <<"m", "a", "n", "g", "a", "b", "u", "f", "f", ".", "r", "u">>

Tabs ==
  { NoTab,
    Tab(TRUE, FALSE, <<>>),
    Tab(TRUE, TRUE, HostMangabuff),
    Tab(TRUE, TRUE, <<"w", "w", "w", ".">> \o HostMangabuff),
    Tab(TRUE, TRUE, <<"n", "o", "t">> \o HostMangabuff),
    Tab(TRUE, TRUE, <<"e", "x", ".", "c", "o", "m">>) }

WordChars ==
  {"a", "b", "c", "d", "e", "f", "g", "h", "i", "j", "k", "l", "m", "n", "o",
   "p", "q", "r", "s", "t", "u", "v", "w", "x", "y", "z", "_"} \cup Digits

\* CONSTANTS.DOMAIN_PATTERN.test(hostname): /\b(?:^|\.)mangabuff\.ru$/i
DOMAIN_PATTERN(hostname) ==
  LET h == Lower(hostname)
      at == Len(h) - Len(HostMangabuff)
  IN /\ at >= 0
     /\ SubSeq(h, at + 1, Len(h)) = HostMangabuff
     /\ \/ at = 0
        \/ at >= 2 /\ h[at] = "." /\ h[at - 1] \in WordChars

\* a version that accepts every URL that parses
validateTabUrlParsed(tab) == IF ~tab.parses THEN "INVALID_URL" ELSE ""

\* validateTabUrl(tab.url): the error, or "" when the URL is valid
validateTabUrl(tab) ==
  IF ~tab.parses THEN "INVALID_URL"
  ELSE IF ~DOMAIN_PATTERN(tab.hostname) THEN "WRONG_DOMAIN"
  ELSE ""

\* one invocation: the listener's async function for a message, or
\* initQuizRegistration; pc is the await it is suspended at, enabled the
\* flag it computed or read, tab the active tab chrome.tabs.query gave it,
\* forwarded whether it sent the message to that tab, responses the
\* arguments of its sendResponse calls
NoCall ==
  [kind |-> "none", msg |-> NoMessage, pc |-> "idle", enabled |-> FALSE,
   tab |-> NoTab, forwarded |-> FALSE, responses |-> <<>>]

\* the service worker with nothing stored and nothing running
HostQuiet ==
  /\ storage = [quizHighlight |-> FALSE, scrollSpeed |-> 50]
  /\ registered = FALSE
  /\ calls = [c \in 1..MaxCalls |-> NoCall]

---------------------------------------------------------------------------
(* The popup: stored settings, controls and handler invocations *)

\* CONFIG.LIMITS.MAX_COMMENTS
MAX_COMMENTS == 100

\* String.prototype.trim
Trim(text) == TrimEnd(TrimStart(text))

RECURSIVE LeadingDigits(_)
LeadingDigits(s) ==
  IF s # <<>> /\ Head(s) \in Digits THEN <<Head(s)>> \o LeadingDigits(Tail(s)) ELSE <<>>

RECURSIVE DecimalValue(_)
DecimalValue(digits) ==
  IF digits = <<>> THEN 0
  ELSE 10 * DecimalValue(SubSeq(digits, 1, Len(digits) - 1))
       + DigitValue(digits[Len(digits)])

\* parseInt(value, 10) of a string: white space, an optional sign, then the
\* digits up to the first other character; NaN without a digit
ParseInt(value) ==
  LET t == TrimStart(value)
      signed == t # <<>> /\ Head(t) \in {"-", "+"}
      digits == LeadingDigits(IF signed THEN Tail(t) ELSE t)
  IN IF digits = <<>> THEN [nan |-> TRUE, num |-> 0]
     ELSE [nan |-> FALSE,
           num |-> IF Head(t) = "-" THEN 0 - DecimalValue(digits)
                   ELSE DecimalValue(digits)]

\* safeParseInt(value, defaultValue) of a string
safeParseInt(value, defaultValue) ==
  IF ParseInt(value).nan THEN defaultValue ELSE ParseInt(value).num

\* the autoCommentSettings object of chrome.storage.sync, or its absence;
\* interval and totalComments are 0 when the object has none
Settings(present, enabled, interval, totalComments, commentsList) ==
  [present |-> present, enabled |-> enabled, interval |-> interval,
   totalComments |-> totalComments, commentsList |-> commentsList]

NoSettings == Settings(FALSE, FALSE, 0, 0, <<>>)

\* Object.assign({ ...CONFIG.DEFAULTS }, data[key] || {}) with
\* commentsList || []: the upper-case defaults give the object no enabled,
\* interval or totalComments
SettingsOrDefaults(settings) ==
  IF settings.present THEN settings ELSE Settings(TRUE, FALSE, 0, 0, <<>>)

\* a version that refuses only a list longer than the limit
CommentsAfterAddBeyond(list, text) ==
  IF Len(list) > MAX_COMMENTS THEN list ELSE Append(list, Trim(text))

\* the list CommentsManager.add writes for the list it read, or the list
\* it read when that one is full
CommentsAfterAdd(list, text) ==
  IF Len(list) >= MAX_COMMENTS THEN list ELSE Append(list, Trim(text))

\* a version without the two chapters before the first comment
computeNeededChaptersFromZero(interval, totalComments) ==
  ((IF totalComments > 1 THEN totalComments ELSE 1) - 1)
    * (IF interval > 1 THEN interval ELSE 1)

\* ActionManager.computeNeededChapters
computeNeededChapters(interval, totalComments) ==
  2 + (((IF totalComments > 1 THEN totalComments ELSE 1) - 1)
         * (IF interval > 1 THEN interval ELSE 1))

\* ActionManager.validateAutoScrollStart for the settings read and the
\* value of #chapterLimitInput
validateAutoScrollStart(settings, limitInput) ==
  LET plannedChapters == safeParseInt(limitInput, 0)
      parsedInterval == safeParseInt(NatToString(settings.interval), 1)
      parsedTotal == safeParseInt(NatToString(settings.totalComments), 1)
      interval == IF parsedInterval > 1 THEN parsedInterval ELSE 1
      total == IF parsedTotal > 1 THEN parsedTotal ELSE 1
  IN IF ~settings.present \/ ~settings.enabled THEN TRUE
     ELSE IF plannedChapters = 0 THEN TRUE
     ELSE plannedChapters >= computeNeededChapters(interval, total)

\* response?.success of what chrome.runtime.sendMessage called back with
ResponseSuccess(response) ==
  IF response = Undefined THEN FALSE ELSE response.success

\* what the service worker answers to a forwarded action, and undefined
\* when the message could not be delivered
ActionResponses ==
  {Success, Failure("NO_ACTIVE_TAB"), Failure("INVALID_URL"),
   Failure("WRONG_DOMAIN"), Failure("lastError"), Undefined}

\* one invocation of a handler: kind names the handler, pc the await it is
\* suspended at, text the comment to add, enabled the state of the switch,
\* read the settings it read, wrote whether it wrote to storage, sent the
\* action it sent, result what sendAction returned
NoRun ==
  [kind |-> "none", pc |-> "idle", text |-> <<>>, enabled |-> FALSE,
   read |-> NoSettings, wrote |-> FALSE, sent |-> "", result |-> FALSE]

\* the popup open with nothing stored and no handler running
PopupQuiet ==
  /\ popupStorage = [settings |-> NoSettings, farmActive |-> FALSE, autoScroll |-> FALSE]
  /\ popupView = [chapterLimitInput |-> <<"0">>, autoScrollSwitch |-> FALSE,
                  errorShown |-> FALSE]
  /\ popupRuns = [r \in 1..MaxRuns |-> NoRun]
  /\ outbox = <<>>

---------------------------------------------------------------------------
(* The state machine *)

\* Date.now() when the script starts: later than the epoch by more than the
\* debounce window, so the initial timestamp 0 suppresses nothing
StartNow == 2 * MARK_DEBOUNCE

MaxNow == StartNow + MaxTicks * MARK_DEBOUNCE

EmptyDocument == [i \in {} |-> Button(<<>>)]

\* the content script after it was loaded, the document given
ContentStart ==
  /\ marked = {}
  /\ lastPayload = NoPayload
  /\ lastMarkTimestamp = 0
  /\ mutationScheduled = FALSE
  /\ rafQueue = 0
  /\ now = StartNow
  /\ trace = NoTrace

\* the page-world script with no traffic
PageQuiet ==
  /\ data = JNull
  /\ info = NotExtracted
  /\ wire = NoWire
  /\ fetchCall = IdleFetch
  /\ xhr = NewXhr
  /\ pageTrace = NoPageTrace

Init ==
  /\ doc = EmptyDocument
  /\ ContentStart
  /\ faults = {}
  /\ HostQuiet
  /\ PopupQuiet
  /\ PageQuiet

\* whether the selector query of this attempt throws: only where the fault
\* is injected
QueryFaults == IF "querySelector" \in faults THEN BOOLEAN ELSE {FALSE}

\* one run of tryMarkCorrectAnswer in the current state; classList.add either
\* returns or throws
\* a version that leaves the descriptor for a later frame while the
\* debounce window is open
AttemptsDebounced(payload) ==
  {IF now - lastMarkTimestamp > MARK_DEBOUNCE
   THEN tryMarkCorrectAnswer(doc, marked, payload, lastMarkTimestamp, now,
                             addThrows, queryThrows)
   ELSE [marked |-> marked, lastPayload |-> payload,
         lastMarkTimestamp |-> lastMarkTimestamp, tr |-> NoTrace] :
     addThrows \in BOOLEAN, queryThrows \in QueryFaults}

Attempts(payload) ==
  {tryMarkCorrectAnswer(doc, marked, payload, lastMarkTimestamp, now,
                        addThrows, queryThrows) :
     addThrows \in BOOLEAN, queryThrows \in QueryFaults}

\* a version without the test of the sender
AcceptedAnySender(m) ==
  /\ m.hasData
  /\ m.source = MESSAGE_SOURCE
  /\ m.type = MESSAGE_TYPE

\* the listener's filter: sender is the page's own window, both tags match
Accepted(m) ==
  /\ m.fromWindow
  /\ m.hasData
  /\ m.source = MESSAGE_SOURCE
  /\ m.type = MESSAGE_TYPE

\* a version that keeps a descriptor that is still pending
StoreUnlessPending(old, payload) == IF old.isObject THEN old ELSE payload

\* state.lastPayload = message.payload
StorePayload(old, payload) == payload

\* window 'message' listener
ReceiveMessage(m) ==
  IF ~Accepted(m)
  THEN /\ trace' = [NoTrace EXCEPT !.op = "ignored"]
       /\ UNCHANGED <<doc, marked, lastPayload, lastMarkTimestamp,
                      mutationScheduled, rafQueue, now, faults, pageVars, hostVars, popupVars>>
  ELSE \E r \in Attempts(StorePayload(lastPayload, m.payload)) :
          /\ marked' = r.marked
          /\ lastPayload' = r.lastPayload
          /\ lastMarkTimestamp' = r.lastMarkTimestamp
          /\ trace' = [r.tr EXCEPT !.op = "message", !.received = m.payload,
                                    !.replaced = (lastPayload.isObject /\
                                                  lastPayload # m.payload)]
          /\ UNCHANGED <<doc, mutationScheduled, rafQueue, now, faults, pageVars, hostVars, popupVars>>

\* a version that requests a frame for every notification
ScheduleAlways(scheduled) == TRUE

\* the observer requests a frame only when none is scheduled
ShouldSchedule(scheduled) == ~scheduled

\* MutationObserver callback, run after the page changed the tree
ObserverCallback ==
  /\ IF ShouldSchedule(mutationScheduled)
     THEN /\ mutationScheduled' = TRUE
          /\ rafQueue' = rafQueue + 1
     ELSE UNCHANGED <<mutationScheduled, rafQueue>>
  /\ trace' = NoTrace
  /\ UNCHANGED <<lastPayload, lastMarkTimestamp, now, faults, pageVars, hostVars, popupVars>>

\* the page inserts a new element under body or under an element
InsertElement(i, kind, p) ==
  /\ i \notin DOMAIN doc
  /\ p = 0 \/ (p \in DOMAIN doc /\ p < i)
  /\ doc' = doc @@ (i :> [tag |-> kind.tag, classes |-> kind.classes,
                          role |-> kind.role, attrs |-> kind.attrs,
                          text |-> kind.text, parent |-> p])
  /\ UNCHANGED marked
  /\ ObserverCallback

\* the page removes an element with its subtree
RemoveElement(i) ==
  /\ i \in DOMAIN doc
  /\ doc' = [j \in DOMAIN doc \ Descendants(doc, i) |-> doc[j]]
  /\ marked' = marked \ Descendants(doc, i)
  /\ ObserverCallback

\* a version that also runs at exactly the window's length
DebounceElapsedInclusive(t, lm) == t - lm >= MARK_DEBOUNCE

\* Date.now() - state.lastMarkTimestamp > CONFIG.TIMEOUTS.MARK_DEBOUNCE
DebounceElapsed(t, lm) == t - lm > MARK_DEBOUNCE

\* the requestAnimationFrame callback of the observer
FrameCallback ==
  /\ rafQueue > 0
  /\ rafQueue' = rafQueue - 1
  /\ mutationScheduled' = FALSE
  /\ IF DebounceElapsed(now, lastMarkTimestamp)
     THEN \E r \in Attempts(lastPayload) :
             /\ marked' = r.marked
             /\ lastPayload' = r.lastPayload
             /\ lastMarkTimestamp' = r.lastMarkTimestamp
             /\ trace' = [r.tr EXCEPT !.op = "frame"]
     ELSE /\ trace' = [NoTrace EXCEPT !.op = "frame"]
          /\ UNCHANGED <<marked, lastPayload, lastMarkTimestamp>>
  /\ UNCHANGED <<doc, now, faults, pageVars, hostVars, popupVars>>

\* time passes between two handlers
Tick ==
  /\ now < MaxNow
  /\ now' = now + MARK_DEBOUNCE
  /\ trace' = NoTrace
  /\ UNCHANGED <<doc, marked, lastPayload, lastMarkTimestamp, mutationScheduled,
                 rafQueue, faults, pageVars, hostVars, popupVars>>

Receive == \E m \in Messages : ReceiveMessage(m)

Insert == \E i \in Nodes, k \in ElementKinds, p \in {0} \cup Nodes : InsertElement(i, k, p)

Remove == \E i \in Nodes : RemoveElement(i)

Next == Receive \/ Insert \/ Remove \/ FrameCallback \/ Tick

Spec == Init /\ [][Next]_vars

\* the browser runs every requested frame callback, and time passes
LiveSpec == Spec /\ WF_vars(FrameCallback) /\ WF_vars(Tick)

---------------------------------------------------------------------------
(* Page world: extraction runs *)

ExtractInit ==
  /\ doc = EmptyDocument
  /\ ContentStart
  /\ faults = {}
  /\ HostQuiet
  /\ PopupQuiet
  /\ data \in ExtractLeaves
  /\ info = NotExtracted
  /\ wire = NoWire
  /\ fetchCall = IdleFetch
  /\ xhr = NewXhr
  /\ pageTrace = NoPageTrace

\* one call of extractCorrectInfo, on the input at hand
Extract ==
  /\ ~info.called
  /\ info' = [called |-> TRUE, result |-> extractCorrectInfo(data)]
  /\ UNCHANGED <<contentVars, hostVars, popupVars, data, wire, fetchCall, xhr, pageTrace>>

\* the next input: the last one, one node larger
NextInput ==
  /\ NodeCount(data) < MaxNodes
  /\ data' \in Wrappings(data) \cup Widenings(data)
  /\ info' = NotExtracted
  /\ UNCHANGED <<contentVars, hostVars, popupVars, wire, fetchCall, xhr, pageTrace>>

ExtractNext == Extract \/ NextInput

ExtractSpec == ExtractInit /\ [][ExtractNext]_vars

---------------------------------------------------------------------------
(* Page world: the wrappers of fetch, XMLHttpRequest.send and WebSocket *)

PageInit ==
  /\ doc = EmptyDocument
  /\ ContentStart
  /\ faults = {}
  /\ HostQuiet
  /\ PopupQuiet
  /\ data = JNull
  /\ info = NotExtracted
  /\ wire \in Wires
  /\ fetchCall = IdleFetch
  /\ xhr = NewXhr
  /\ pageTrace = NoPageTrace

\* the page calls fetch: the wrapper calls the original with its arguments
\* and awaits it
FetchCall ==
  /\ fetchCall.phase \in {"idle", "settled"}
  /\ fetchCall' = [IdleFetch EXCEPT !.phase = "awaiting"]
  /\ pageTrace' = [NoPageTrace EXCEPT !.op = "fetch"]
  /\ UNCHANGED <<contentVars, hostVars, popupVars, data, info, wire, xhr>>

\* the original fetch rejects: the wrapper throws the error again
FetchOriginalRejects ==
  /\ fetchCall.phase = "awaiting"
  /\ LET original == Outcome("rejected", "error")
         delivered == FetchSettle(original, "none")
     IN /\ fetchCall' = [phase |-> "settled", original |-> original,
                         delivered |-> delivered]
        /\ pageTrace' = [NoPageTrace EXCEPT !.op = "fetchRejected",
                                            !.original = original,
                                            !.result = delivered]
  /\ UNCHANGED <<contentVars, hostVars, popupVars, data, info, wire, xhr>>

\* the original fetch resolves: the wrapper tests the content type and, for
\* JSON, clones the response and awaits clonedResponse.json()
FetchOriginalResolves(fault) ==
  /\ fetchCall.phase = "awaiting"
  /\ LET original == Outcome("resolved", "response")
         reads == fault = "none" /\ IsJson(wire.contentType)
         delivered == IF reads THEN NoOutcome ELSE FetchSettle(original, fault)
     IN /\ fetchCall' = [phase |-> IF reads THEN "reading" ELSE "settled",
                         original |-> original, delivered |-> delivered]
        /\ pageTrace' = [NoPageTrace EXCEPT !.op = "fetchResolved",
                                            !.fault = fault,
                                            !.original = original,
                                            !.result = delivered]
  /\ UNCHANGED <<contentVars, hostVars, popupVars, data, info, wire, xhr>>

\* clonedResponse.json() settles, once the whole body has arrived: the
\* wrapper extracts, posts and only then returns the response
FetchCloneSettles(fault) ==
  /\ fetchCall.phase = "reading"
  /\ LET observed == BodyPayloads(wire.contentType, wire.body, fault)
         truthy == SelectSeq(observed, LAMBDA payload : ~Falsy(payload))
         delivered == FetchSettle(fetchCall.original, fault)
     IN /\ fetchCall' = [fetchCall EXCEPT !.phase = "settled",
                                          !.delivered = delivered]
        /\ pageTrace' = [op |-> "fetchBody", fault |-> fault,
                         observed |-> observed,
                         posts |-> PostsFor(truthy, fault),
                         original |-> fetchCall.original,
                         result |-> delivered]
  /\ UNCHANGED <<contentVars, hostVars, popupVars, data, info, wire, xhr>>

\* the page calls send on the request object: the wrapper attaches one more
\* handleLoad listener, calls the original send and returns what it returns
\* (it throws while a request is in flight)
XhrSend(fault) ==
  /\ xhr.listeners < MaxListeners
  /\ LET original == IF xhr.inFlight
                     THEN Outcome("threw", "InvalidStateError")
                     ELSE Outcome("returned", "undefined")
     IN /\ xhr' = [listeners |-> IF fault = "listener" THEN xhr.listeners
                                 ELSE xhr.listeners + 1,
                   inFlight |-> TRUE]
        /\ pageTrace' = [NoPageTrace EXCEPT !.op = "xhrSend", !.fault = fault,
                                            !.original = original,
                                            !.result = original]
  /\ UNCHANGED <<contentVars, hostVars, popupVars, data, info, wire, fetchCall>>

\* the load event of the request: every attached handleLoad runs
XhrLoad(fault) ==
  /\ xhr.inFlight
  /\ LET observed == IF xhr.listeners > 0
                     THEN BodyPayloads(wire.contentType, wire.body, fault)
                     ELSE <<>>
     IN /\ xhr' = [xhr EXCEPT !.inFlight = FALSE]
        /\ pageTrace' = [NoPageTrace EXCEPT
                           !.op = "xhrLoad", !.fault = fault,
                           !.observed = observed,
                           !.posts = Repeat(PostsFor(observed, fault), xhr.listeners)]
  /\ UNCHANGED <<contentVars, hostVars, popupVars, data, info, wire, fetchCall>>

\* a message event of a socket: the wrapper's listener runs
\* parseSocketMessage beside the page's own listeners
SocketMessage(fault, isString) ==
  /\ LET observed == IF isString THEN SocketPayloads(wire.body) ELSE <<>>
         original == Outcome("delivered", IF isString THEN "text" ELSE "binary")
     IN pageTrace' = [op |-> "socket", fault |-> fault,
                      observed |-> observed,
                      posts |-> PostsFor(observed, fault),
                      original |-> original, result |-> original]
  /\ UNCHANGED <<contentVars, hostVars, popupVars, data, info, wire, fetchCall, xhr>>

FetchResolves == \E fault \in {"none", "headers", "clone"} : FetchOriginalResolves(fault)

FetchBody == \E fault \in {"none", "read", "extract", "post"} : FetchCloneSettles(fault)

Send == \E fault \in {"none", "listener"} : XhrSend(fault)

Load == \E fault \in {"none", "headers", "read", "extract", "post"} : XhrLoad(fault)

Socket == \E fault \in {"none", "extract", "post"}, isString \in BOOLEAN : SocketMessage(fault, isString)

PageNext ==
  FetchCall \/ FetchOriginalRejects \/ FetchResolves \/ FetchBody \/ Send \/ Load \/ Socket

PageSpec == PageInit /\ [][PageNext]_vars

\* the service worker, with or without failing chrome APIs
BackgroundFaults == {"storage.sync.set", "registerContentScripts"}

\* how chrome.storage.sync.set ends: the value is stored and the callback
\* runs; the callback runs with runtime.lastError set and nothing stored;
\* or the call throws
StorageOutcomes ==
  IF "storage.sync.set" \in faults THEN {"stored", "lastError", "throws"}
  ELSE {"stored"}

\* whether chrome.scripting.registerContentScripts rejects: always for an
\* id that is registered, otherwise only where the fault is injected
RegisterRejects(isRegistered) ==
  IF isRegistered THEN {TRUE}
  ELSE IF "registerContentScripts" \in faults THEN BOOLEAN ELSE {FALSE}

BackgroundInit ==
  /\ doc = EmptyDocument
  /\ ContentStart
  /\ PageQuiet
  /\ PopupQuiet
  /\ faults \in {{}, BackgroundFaults}
  /\ storage \in [quizHighlight : BOOLEAN, scrollSpeed : {50}]
  /\ registered = storage.quizHighlight
  /\ calls = [c \in 1..MaxCalls |-> NoCall]

\* a version that answers and then falls through to the answer at the end
\* of the listener
RespondTwice(call, response) ==
  [call EXCEPT !.pc = "done", !.responses = @ \o <<response, response>>]

Respond(call, response) ==
  [call EXCEPT !.pc = "done", !.responses = @ \o <<response>>]

\* the onMessage listener up to the first await of the handler it routes to
OnMessage(c, msg) ==
  /\ calls[c].pc = "idle"
  /\ LET call == [calls[c] EXCEPT !.kind = "message", !.msg = msg]
     IN IF ~validateMessage(msg)
        THEN /\ calls' = [calls EXCEPT ![c] = Respond(call, Failure("INVALID_MESSAGE"))]
             /\ UNCHANGED storage
        ELSE IF msg.action = "setQuiz"
        THEN \E outcome \in StorageOutcomes :
               IF outcome = "throws"
               THEN /\ calls' = [calls EXCEPT ![c] =
                                   Respond([call EXCEPT !.enabled = ToBoolean(msg.enabled)],
                                           Failure("storage"))]
                    /\ UNCHANGED storage
               ELSE /\ calls' = [calls EXCEPT ![c] =
                                   [call EXCEPT !.enabled = ToBoolean(msg.enabled),
                                                !.pc = "stored"]]
                    /\ storage' = IF outcome = "stored"
                                  THEN [storage EXCEPT !.quizHighlight = ToBoolean(msg.enabled)]
                                  ELSE storage
        ELSE IF msg.action = "updateSpeed"
        THEN \E outcome \in StorageOutcomes :
               IF outcome = "throws"
               THEN /\ calls' = [calls EXCEPT ![c] = Respond(call, Failure("storage"))]
                    /\ UNCHANGED storage
               ELSE /\ calls' = [calls EXCEPT ![c] = [call EXCEPT !.pc = "finishing"]]
                    /\ storage' = IF outcome = "stored"
                                  THEN [storage EXCEPT !.scrollSpeed = normalizeSpeed(msg.speed)]
                                  ELSE storage
        ELSE IF msg.action \notin VALID_ACTIONS
        THEN /\ calls' = [calls EXCEPT ![c] = Respond(call, Failure("UNKNOWN_ACTION"))]
             /\ UNCHANGED storage
        ELSE /\ calls' = [calls EXCEPT ![c] = [call EXCEPT !.pc = "queried"]]
             /\ UNCHANGED storage
  /\ UNCHANGED <<contentVars, pageVars, popupVars, registered>>

\* initQuizRegistration up to its await of chrome.storage.sync.get
initQuizRegistration(c) ==
  /\ calls[c].pc = "idle"
  /\ calls' = [calls EXCEPT ![c] =
                 [NoCall EXCEPT !.kind = "init", !.pc = "stored",
                                !.enabled = storage.quizHighlight]]
  /\ UNCHANGED <<contentVars, pageVars, popupVars, storage, registered>>

\* after the storage call: registerQuizContentScript or
\* unregisterQuizContentScript, either up to its await of
\* chrome.scripting.unregisterContentScripts
AfterStorage(c) ==
  /\ calls[c].pc = "stored"
  /\ registered' = FALSE
  /\ calls' = [calls EXCEPT ![c].pc = IF calls[c].enabled THEN "unregistered"
                                      ELSE "finishing"]
  /\ UNCHANGED <<contentVars, pageVars, popupVars, storage>>

\* registerQuizContentScript after the old registration was removed: up to
\* its await of chrome.scripting.registerContentScripts; a rejection is
\* caught and logged
AfterUnregister(c) ==
  /\ calls[c].pc = "unregistered"
  /\ \E rejects \in RegisterRejects(registered) :
       registered' = IF rejects THEN registered ELSE TRUE
  /\ calls' = [calls EXCEPT ![c].pc = "finishing"]
  /\ UNCHANGED <<contentVars, pageVars, popupVars, storage>>

\* the handler returns {success: true} and the listener answers; the
\* startup initialisation just ends
Finish(c) ==
  /\ calls[c].pc = "finishing"
  /\ calls' = [calls EXCEPT ![c] = IF calls[c].kind = "message"
                                   THEN Respond(calls[c], Success)
                                   ELSE [calls[c] EXCEPT !.pc = "done"]]
  /\ UNCHANGED <<contentVars, pageVars, popupVars, storage, registered>>

\* handleStandardAction after chrome.tabs.query: the checks of the tab, then
\* chrome.tabs.sendMessage
TabsQueried(c, tab) ==
  /\ calls[c].pc = "queried"
  /\ LET call == [calls[c] EXCEPT !.tab = tab]
     IN calls' = [calls EXCEPT ![c] =
                    IF ~tab.present THEN Respond(call, Failure("NO_ACTIVE_TAB"))
                    ELSE IF validateTabUrl(tab) # ""
                    THEN Respond(call, Failure(validateTabUrl(tab)))
                    ELSE [call EXCEPT !.pc = "sent", !.forwarded = TRUE]]
  /\ UNCHANGED <<contentVars, pageVars, popupVars, storage, registered>>

\* what the tab's content script answers: nothing, success or a failure
TabResponses == {Undefined, Success, Failure("tab")}

\* handleStandardAction after chrome.tabs.sendMessage: rejected with
\* runtime.lastError, or resolved with the tab's response
TabAnswered(c, rejected, response) ==
  /\ calls[c].pc = "sent"
  /\ calls' = [calls EXCEPT ![c] =
                 IF rejected THEN Respond(calls[c], Failure("lastError"))
                 ELSE IF response = Undefined THEN Respond(calls[c], Success)
                 ELSE Respond(calls[c], response)]
  /\ UNCHANGED <<contentVars, pageVars, popupVars, storage, registered>>

Deliver == \E c \in 1..MaxCalls, msg \in BackgroundMessages : OnMessage(c, msg)

Startup == \E c \in 1..MaxCalls : initQuizRegistration(c)

Stored == \E c \in 1..MaxCalls : AfterStorage(c)

Unregistered == \E c \in 1..MaxCalls : AfterUnregister(c)

Finished == \E c \in 1..MaxCalls : Finish(c)

Queried == \E c \in 1..MaxCalls, tab \in Tabs : TabsQueried(c, tab)

Answered ==
  \E c \in 1..MaxCalls, rejected \in BOOLEAN, response \in TabResponses :
    TabAnswered(c, rejected, response)

BackgroundNext ==
  Deliver \/ Startup \/ Stored \/ Unregistered \/ Finished \/ Queried \/ Answered

BackgroundSpec == BackgroundInit /\ [][BackgroundNext]_vars

\* the browser calls back the chrome API calls the handlers wait for
BackgroundLiveSpec ==
  BackgroundSpec /\ WF_vars(Stored \/ Unregistered \/ Finished \/ Queried \/ Answered)

\* a page whose elements are nested in one chain: element 1 under body,
\* each further element under the one before; the innermost carries
\* data-id="42", the others are div or div.answer
ChainLeaf == MaxGenerations + 1

ChainLeafKinds ==
  { [tag |-> "span", classes |-> {}, role |-> "",
     attrs |-> {<<"data-id", <<"4", "2">> >>}, text |-> <<"x">>],
    [tag |-> "button", classes |-> {}, role |-> "",
     attrs |-> {<<"data-id", <<"4", "2">> >>}, text |-> <<"x">>] }

ChainDocuments ==
  { [i \in 1..ChainLeaf |->
       IF i = ChainLeaf
       THEN [tag |-> leaf.tag, classes |-> leaf.classes, role |-> leaf.role,
             attrs |-> leaf.attrs, text |-> leaf.text, parent |-> i - 1]
       ELSE [tag |-> "div", classes |-> IF i \in answers THEN {"answer"} ELSE {},
             role |-> "", attrs |-> {}, text |-> <<>>, parent |-> i - 1]] :
      leaf \in ChainLeafKinds, answers \in SUBSET (1..MaxGenerations) }

\* the content script loaded into a page of nested elements
ChainInit ==
  /\ doc \in ChainDocuments
  /\ ContentStart
  /\ faults = {}
  /\ HostQuiet
  /\ PopupQuiet
  /\ PageQuiet

\* relay messages arrive; the page does not change
ChainNext == Receive

ChainSpec == ChainInit /\ [][ChainNext]_vars

\* a page of many leaves: div containers under body, each holding up to
\* GroupSize span leaves without text; one leaf, the rank-th in document
\* order, has a text; after them body may hold one button
LeafCount == MAX_TEXT_ELEMENTS + MaxBeyond

GroupCount == (LeafCount + GroupSize - 1) \div GroupSize

LeafTexts == {<<"P", "a">>, <<"P", "a", ",", " ", "F">>}

ButtonTexts == {<<"P", "a", ",", " ", "F">>, <<"x">>}

LeafDocument(rank, text, buttons) ==
  [i \in 1..(GroupCount + LeafCount + Cardinality(buttons)) |->
     IF i <= GroupCount
     THEN [tag |-> "div", classes |-> {}, role |-> "", attrs |-> {},
           text |-> <<>>, parent |-> 0]
     ELSE IF i <= GroupCount + LeafCount
     THEN [tag |-> "span", classes |-> {}, role |-> "", attrs |-> {},
           text |-> IF i = GroupCount + rank THEN text ELSE <<>>,
           parent |-> ((i - GroupCount - 1) \div GroupSize) + 1]
     ELSE [tag |-> "button", classes |-> {}, role |-> "", attrs |-> {},
           text |-> CHOOSE t \in buttons : TRUE, parent |-> 0]]

LeafDocuments ==
  {LeafDocument(rank, text, buttons) :
     rank \in (MAX_TEXT_ELEMENTS - MaxBeyond + 1)..LeafCount,
     text \in LeafTexts,
     buttons \in {{}} \cup {{t} : t \in ButtonTexts}}

\* the content script loaded into a page of many leaves
LeafInit ==
  /\ doc \in LeafDocuments
  /\ ContentStart
  /\ faults = {}
  /\ HostQuiet
  /\ PopupQuiet
  /\ PageQuiet

\* the relay's envelope for the text "Pa", and a message of another sender
LeafMessages ==
  { Envelope(TRUE, TRUE, MESSAGE_SOURCE, MESSAGE_TYPE, Descriptor(<<"P", "a">>, Null)),
    Envelope(FALSE, TRUE, MESSAGE_SOURCE, MESSAGE_TYPE, Descriptor(<<"P", "a">>, Null)) }

LeafNext == \E m \in LeafMessages : ReceiveMessage(m)

LeafSpec == LeafInit /\ [][LeafNext]_vars

\* a page of childless elements of one tag in div containers of up to
\* PageGroupSize each; the last one has the given text, the others none
PageDocument(leaves, tag, text) ==
  LET groups == (leaves + PageGroupSize - 1) \div PageGroupSize
  IN [i \in 1..(groups + leaves) |->
        IF i <= groups
        THEN [tag |-> "div", classes |-> {}, role |-> "", attrs |-> {},
              text |-> <<>>, parent |-> 0]
        ELSE [tag |-> tag, classes |-> {}, role |-> "", attrs |-> {},
              text |-> IF i = groups + leaves THEN text ELSE <<>>,
              parent |-> ((i - groups - 1) \div PageGroupSize) + 1]]

\* small pages of spans or of buttons, with and without the text searched
\* for, and one page of so many buttons that the two passes over them and
\* the filter of the leaf fallback outnumber what the caps add up to
PageDocuments ==
  {PageDocument(leaves, tag, text) :
     leaves \in 1..MaxPage, tag \in {"span", "button"}, text \in {<<>>, <<"P", "a">>}}
  \cup {PageDocument((2 * MAX_CANDIDATES + MAX_PARENT_DEPTH) \div 3 + 1, "button", <<>>)}

\* the content script holding a descriptor it could not locate when it
\* arrived, after the page has rendered and the observer requested a frame
PageRendered ==
  /\ doc \in PageDocuments
  /\ marked = {}
  /\ lastPayload = Descriptor(<<"P", "a">>, Null)
  /\ lastMarkTimestamp = 0
  /\ mutationScheduled = TRUE
  /\ rafQueue = 1
  /\ now = StartNow
  /\ trace = NoTrace
  /\ faults = {}
  /\ HostQuiet
  /\ PopupQuiet
  /\ PageQuiet

\* the frame runs; the page does not change any more
CostNext == FrameCallback

CostSpec == PageRendered /\ [][CostNext]_vars

\* pages of MaxElems elements, side by side or all inside the first
WindowDocuments ==
  {[i \in 1..MaxElems |->
      [tag |-> k[i].tag, classes |-> k[i].classes, role |-> k[i].role,
       attrs |-> k[i].attrs, text |-> k[i].text,
       parent |-> IF nested /\ i > 1 THEN 1 ELSE 0]] :
     k \in [1..MaxElems -> ElementKinds], nested \in BOOLEAN}

\* the content script at the moment it has highlighted an answer: the
\* debounce window has just opened, and a frame may be scheduled
JustHighlighted ==
  /\ doc \in WindowDocuments
  /\ marked \in {{i} : i \in {j \in DOMAIN doc : MatchesAnswerSelectors(doc[j])}}
  /\ lastPayload = NoPayload
  /\ lastMarkTimestamp = StartNow
  /\ now = StartNow
  /\ mutationScheduled \in BOOLEAN
  /\ rafQueue = IF mutationScheduled THEN 1 ELSE 0
  /\ trace = NoTrace
  /\ faults = {}
  /\ HostQuiet
  /\ PopupQuiet
  /\ PageQuiet

\* messages arrive before any time passes
WindowNext == Receive

WindowSpec == JustHighlighted /\ [][WindowNext]_vars

\* relay messages whose descriptor has a text of white space only, and one
\* with a text that has content
BlankMessages ==
  {Envelope(TRUE, TRUE, MESSAGE_SOURCE, MESSAGE_TYPE, Descriptor(text, Null)) :
     text \in {<<" ">>, <<"\t", " ">>, <<"P", "a">>}}

ReceiveBlank == \E m \in BlankMessages : ReceiveMessage(m)

\* the content script in a page that changes, receiving such descriptors
BlankNext == Insert \/ Remove \/ ReceiveBlank

BlankSpec == Init /\ [][BlankNext]_vars

---------------------------------------------------------------------------
(* The popup's handlers *)

\* CommentsManager.add(text) up to await storage.get
AddCall(r, text) ==
  /\ popupRuns[r].pc = "idle"
  /\ popupRuns' = [popupRuns EXCEPT ![r] =
                     [NoRun EXCEPT !.kind = "add", !.text = text,
                                   !.pc = IF Trim(text) = <<>> THEN "done" ELSE "get"]]
  /\ UNCHANGED <<contentVars, pageVars, hostVars, popupStorage, popupView, outbox>>

\* chrome.storage.sync.get reads the settings for an add
AddGet(r) ==
  /\ popupRuns[r].kind = "add"
  /\ popupRuns[r].pc = "get"
  /\ popupRuns' = [popupRuns EXCEPT ![r] =
                     [@ EXCEPT !.pc = "got", !.read = popupStorage.settings]]
  /\ UNCHANGED <<contentVars, pageVars, hostVars, popupStorage, popupView, outbox>>

\* CommentsManager.add after await storage.get: the limit, the push and
\* the write of the whole settings object
AddSet(r) ==
  /\ popupRuns[r].kind = "add"
  /\ popupRuns[r].pc = "got"
  /\ LET settings == SettingsOrDefaults(popupRuns[r].read)
         list == CommentsAfterAdd(settings.commentsList, popupRuns[r].text)
     IN IF list = settings.commentsList
        THEN /\ popupView' = [popupView EXCEPT !.errorShown = TRUE]
             /\ popupRuns' = [popupRuns EXCEPT ![r] = [@ EXCEPT !.pc = "done"]]
             /\ UNCHANGED popupStorage
        ELSE /\ popupStorage' = [popupStorage EXCEPT !.settings =
                                   [settings EXCEPT !.commentsList = list]]
             /\ popupRuns' = [popupRuns EXCEPT ![r] =
                                [@ EXCEPT !.pc = "done", !.wrote = TRUE]]
             /\ UNCHANGED popupView
  /\ UNCHANGED <<contentVars, pageVars, hostVars, outbox>>

\* texts typed into #newCommentText
CommentTexts == {<<"b">>, <<" ", "c", " ">>, <<" ">>}

\* stored settings with an empty list and with lists near the limit
StoredComments ==
  {[i \in 1..n |-> <<"a">>] : n \in {0} \cup ((MAX_COMMENTS - MaxBeyond)..MAX_COMMENTS)}

\* the popup open on stored settings, or on none
CommentsInit ==
  /\ doc = EmptyDocument
  /\ ContentStart
  /\ faults = {}
  /\ HostQuiet
  /\ PageQuiet
  /\ popupStorage \in
       [settings : {NoSettings} \cup {Settings(TRUE, TRUE, 2, 5, list) : list \in StoredComments},
        farmActive : {FALSE}, autoScroll : {FALSE}]
  /\ popupView = [chapterLimitInput |-> <<"0">>, autoScrollSwitch |-> FALSE,
                  errorShown |-> FALSE]
  /\ popupRuns = [r \in 1..MaxRuns |-> NoRun]
  /\ outbox = <<>>

Add == \E r \in 1..MaxRuns, text \in CommentTexts : AddCall(r, text)

AddRead == \E r \in 1..MaxRuns : AddGet(r)

AddWrite == \E r \in 1..MaxRuns : AddSet(r)

CommentsNext == Add \/ AddRead \/ AddWrite

CommentsSpec == CommentsInit /\ [][CommentsNext]_vars

\* ActionManager.sendAction up to await runtime.sendMessage
SendAction(run, action) == [run EXCEPT !.pc = "sent", !.sent = action]

\* the click handler of #startFarm up to await storage.set
StartFarmClick(r) ==
  /\ popupRuns[r].pc = "idle"
  /\ popupRuns' = [popupRuns EXCEPT ![r] =
                     [NoRun EXCEPT !.kind = "startFarm", !.pc = "set"]]
  /\ UNCHANGED <<contentVars, pageVars, hostVars, popupStorage, popupView, outbox>>

\* storage.set({ farmActive: true }) is done; sendAction('startFarm')
StartFarmStored(r) ==
  /\ popupRuns[r].kind = "startFarm"
  /\ popupRuns[r].pc = "set"
  /\ popupStorage' = [popupStorage EXCEPT !.farmActive = TRUE]
  /\ popupRuns' = [popupRuns EXCEPT ![r] = SendAction([@ EXCEPT !.wrote = TRUE], "startFarm")]
  /\ outbox' = Append(outbox, "startFarm")
  /\ UNCHANGED <<contentVars, pageVars, hostVars, popupView>>

\* the click handler of #stopFarm up to await sendAction('stopFarm')
StopFarmClick(r) ==
  /\ popupRuns[r].pc = "idle"
  /\ popupRuns' = [popupRuns EXCEPT ![r] =
                     SendAction([NoRun EXCEPT !.kind = "stopFarm"], "stopFarm")]
  /\ outbox' = Append(outbox, "stopFarm")
  /\ UNCHANGED <<contentVars, pageVars, hostVars, popupStorage, popupView>>

\* storage.set({ farmActive: false }) of the #stopFarm handler is done
StopFarmStored(r) ==
  /\ popupRuns[r].kind = "stopFarm"
  /\ popupRuns[r].pc = "set"
  /\ popupStorage' = [popupStorage EXCEPT !.farmActive = FALSE]
  /\ popupRuns' = [popupRuns EXCEPT ![r] = [@ EXCEPT !.pc = "done", !.wrote = TRUE]]
  /\ UNCHANGED <<contentVars, pageVars, hostVars, popupView, outbox>>

\* runtime.sendMessage calls back: the rest of sendAction, and of the
\* handler that awaited it (only #stopFarm goes on, to its storage.set)
ActionAnswered(r, response) ==
  /\ popupRuns[r].pc = "sent"
  /\ popupRuns' = [popupRuns EXCEPT ![r] =
                     [@ EXCEPT !.result = ResponseSuccess(response),
                               !.pc = IF popupRuns[r].kind = "stopFarm"
                                      THEN "set" ELSE "done"]]
  /\ popupView' = IF ResponseSuccess(response) THEN popupView
                  ELSE [popupView EXCEPT !.errorShown = TRUE]
  /\ UNCHANGED <<contentVars, pageVars, hostVars, popupStorage, outbox>>

\* the popup open while the farm runs or not
FarmInit ==
  /\ doc = EmptyDocument
  /\ ContentStart
  /\ faults = {}
  /\ HostQuiet
  /\ PageQuiet
  /\ popupStorage \in [settings : {NoSettings}, farmActive : BOOLEAN, autoScroll : {FALSE}]
  /\ popupView = [chapterLimitInput |-> <<"0">>, autoScrollSwitch |-> FALSE,
                  errorShown |-> FALSE]
  /\ popupRuns = [r \in 1..MaxRuns |-> NoRun]
  /\ outbox = <<>>

StartFarm == \E r \in 1..MaxRuns : StartFarmClick(r)

StartStored == \E r \in 1..MaxRuns : StartFarmStored(r)

StopFarm == \E r \in 1..MaxRuns : StopFarmClick(r)

StopStored == \E r \in 1..MaxRuns : StopFarmStored(r)

ActionAnswer == \E r \in 1..MaxRuns, response \in ActionResponses : ActionAnswered(r, response)

FarmNext == StartFarm \/ StartStored \/ StopFarm \/ StopStored \/ ActionAnswer

FarmSpec == FarmInit /\ [][FarmNext]_vars

\* the change handler of #autoScrollSwitch up to its first await: the get
\* of validateAutoScrollStart when the switch was turned on, storage.set
\* otherwise
SwitchChange(r, enabled) ==
  /\ popupRuns[r].pc = "idle"
  /\ popupView.autoScrollSwitch # enabled
  /\ popupView' = [popupView EXCEPT !.autoScrollSwitch = enabled]
  /\ popupRuns' = [popupRuns EXCEPT ![r] =
                     [NoRun EXCEPT !.kind = "scroll", !.enabled = enabled,
                                   !.pc = IF enabled THEN "validate" ELSE "set"]]
  /\ UNCHANGED <<contentVars, pageVars, hostVars, popupStorage, outbox>>

\* validateAutoScrollStart after await storage.get, and the handler's
\* reset of the switch when it returned false
ScrollValidated(r) ==
  /\ popupRuns[r].kind = "scroll"
  /\ popupRuns[r].pc = "validate"
  /\ IF validateAutoScrollStart(popupStorage.settings, popupView.chapterLimitInput)
     THEN /\ popupRuns' = [popupRuns EXCEPT ![r] =
                             [@ EXCEPT !.pc = "set", !.read = popupStorage.settings]]
          /\ UNCHANGED popupView
     ELSE /\ popupRuns' = [popupRuns EXCEPT ![r] =
                             [@ EXCEPT !.pc = "done", !.read = popupStorage.settings]]
          /\ popupView' = [popupView EXCEPT !.autoScrollSwitch = FALSE,
                                            !.errorShown = TRUE]
  /\ UNCHANGED <<contentVars, pageVars, hostVars, popupStorage, outbox>>

\* storage.set({ autoScroll: enabled }) is done; sendAction follows
ScrollStored(r) ==
  /\ popupRuns[r].kind = "scroll"
  /\ popupRuns[r].pc = "set"
  /\ popupStorage' = [popupStorage EXCEPT !.autoScroll = popupRuns[r].enabled]
  /\ LET action == IF popupRuns[r].enabled THEN "startScrolling" ELSE "stopScrolling"
     IN /\ popupRuns' = [popupRuns EXCEPT ![r] = SendAction([@ EXCEPT !.wrote = TRUE], action)]
        /\ outbox' = Append(outbox, action)
  /\ UNCHANGED <<contentVars, pageVars, hostVars, popupView>>

\* values of #chapterLimitInput
LimitInputs ==
  {<<>>, <<"0">>, <<"9">>, <<"1", "0">>, <<"-", "1">>, <<"x">>, <<"1", "0", ".", "5">>}

\* stored auto-comment settings: none, disabled, and enabled with
\* intervals and totals that need 2, 3 and 10 chapters
ScrollSettings ==
  {NoSettings} \cup
  {Settings(TRUE, enabled, interval, total, <<>>) :
     enabled \in BOOLEAN, interval \in {0, 2}, total \in {0, 2, 5}}

\* the popup open with the switch showing the stored autoScroll
ScrollInit ==
  /\ doc = EmptyDocument
  /\ ContentStart
  /\ faults = {}
  /\ HostQuiet
  /\ PageQuiet
  /\ \E settings \in ScrollSettings, limit \in LimitInputs, on \in BOOLEAN :
       /\ popupStorage = [settings |-> settings, farmActive |-> FALSE, autoScroll |-> on]
       /\ popupView = [chapterLimitInput |-> limit, autoScrollSwitch |-> on,
                       errorShown |-> FALSE]
  /\ popupRuns = [r \in 1..MaxRuns |-> NoRun]
  /\ outbox = <<>>

Switch == \E r \in 1..MaxRuns, enabled \in BOOLEAN : SwitchChange(r, enabled)

Validated == \E r \in 1..MaxRuns : ScrollValidated(r)

ScrollSaved == \E r \in 1..MaxRuns : ScrollStored(r)

ScrollNext == Switch \/ Validated \/ ScrollSaved \/ ActionAnswer

ScrollSpec == ScrollInit /\ [][ScrollNext]_vars

\* the content script in a page where document.querySelector can throw
FaultInit ==
  /\ doc = EmptyDocument
  /\ ContentStart
  /\ faults = {"querySelector"}
  /\ HostQuiet
  /\ PopupQuiet
  /\ PageQuiet

FaultSpec == FaultInit /\ [][Next]_vars

---------------------------------------------------------------------------
(* Properties *)

\* elements carrying one of the token attributes with exactly this value
TokenElements(d, token) ==
  {i \in DOMAIN d : \E a \in TOKEN_ATTRIBUTES : <<a, token>> \in d[i].attrs}

\* candidates whose normalized text equals the normalized search text
ExactCandidates(d, text) ==
  {i \in DOMAIN d : /\ MatchesAnswerSelectors(d[i])
                    /\ NormalizeText(ElementText(d, i)) = NormalizeText(text)}

\* candidates whose normalized text contains the search text without
\* being equal to it
SubstringOnlyCandidates(d, text) ==
  {i \in DOMAIN d : /\ MatchesAnswerSelectors(d[i])
                    /\ Includes(NormalizeText(ElementText(d, i)), NormalizeText(text))
                    /\ NormalizeText(ElementText(d, i)) # NormalizeText(text)}

Position(d, i) == CHOOSE k \in 1..Len(DocumentOrder(d)) : DocumentOrder(d)[k] = i

C2_FailedAttemptKeepsState ==
  [][(trace'.invoked /\ trace'.payload.isObject /\ trace'.found = NoElement)
       => /\ marked' = marked
          /\ lastPayload' = trace'.payload
          /\ lastMarkTimestamp' = lastMarkTimestamp]_vars

C2_Witness ==
  /\ trace.op = "frame"
  /\ trace.invoked
  /\ trace.ranToken
  /\ trace.found = NoElement
  /\ lastPayload = trace.payload
  /\ marked # {}

\* C3: a successful highlight clears lastPayload, and a frame re-check that
\* finds lastPayload cleared changes neither the marker nor the timestamp.
C3_ConsumedOnce ==
  [][/\ (trace'.invoked /\ trace'.target # NoElement) => lastPayload' = NoPayload
     /\ (trace'.op = "frame" /\ ~lastPayload.isObject)
          => /\ marked' = marked
             /\ lastPayload' = lastPayload
             /\ lastMarkTimestamp' = lastMarkTimestamp
             /\ trace'.target = NoElement]_vars

C3_Witness ==
  /\ trace.op = "frame"
  /\ trace.invoked
  /\ ~trace.payload.isObject
  /\ marked # {}
  /\ lastMarkTimestamp > 0

\* C4: a receipt attempts the descriptor it carries and leaves nothing else
\* in lastPayload; a frame re-check attempts what lastPayload holds; no other
\* step changes lastPayload.  So a descriptor overwritten while pending is
\* never attempted again.
C4_OnlyLatestAttempted ==
  [][/\ trace'.op = "message"
          => /\ trace'.invoked
             /\ trace'.payload = trace'.received
             /\ lastPayload' \in {NoPayload, trace'.received}
     /\ (trace'.op = "frame" /\ trace'.invoked)
          => /\ trace'.payload = lastPayload
             /\ lastPayload' \in {NoPayload, lastPayload}
     /\ trace'.op \notin {"message", "frame"} => lastPayload' = lastPayload]_vars

C4_Witness ==
  /\ trace.op = "message"
  /\ trace.replaced
  /\ trace.received.isObject
  /\ trace.payload = trace.received
  /\ trace.target # NoElement

\* C5 as stated: once a new descriptor has been received, no element other
\* than the one located for it carries the marker, located or not.
C5_ClearedOnReceipt ==
  [][(trace'.op = "message" /\ trace'.payload.isObject)
       => marked' \subseteq {trace'.target}]_vars

\* C5 as amended: a receipt whose lookup succeeds leaves the marker on no
\* element but the new target; a receipt whose lookup fails leaves the
\* marker classes as they were.
C5_ClearedOnSuccess ==
  [][(trace'.op = "message" /\ trace'.payload.isObject)
       => IF trace'.found # NoElement
          THEN marked' \subseteq {trace'.target}
          ELSE marked' = marked]_vars

C5_Witness ==
  /\ trace.op = "message"
  /\ trace.payload.isObject
  /\ trace.found = NoElement
  /\ lastPayload = trace.payload
  /\ marked # {}

PendingLocatable ==
  /\ lastPayload.isObject
  /\ Locate(doc, lastPayload).element # NoElement

\* C6: a pending descriptor that can be located does not stay pending: it is
\* highlighted (or replaced, or its element removed) without a further
\* mutation.
C6_RetryUntilSuccess == PendingLocatable ~> ~PendingLocatable

\* C7: mutationScheduled is true exactly while one frame callback is
\* outstanding, never more than one is, and the callback leaves the flag
\* reset.
C7_OneFrameOutstanding ==
  /\ rafQueue \in {0, 1}
  /\ mutationScheduled <=> rafQueue = 1
  /\ trace.op = "frame" => ~mutationScheduled

C7_Witness ==
  /\ mutationScheduled
  /\ rafQueue = 1
  /\ DOMAIN doc = Nodes
  /\ now = StartNow
  /\ lastMarkTimestamp = 0
  /\ ~lastPayload.isObject

\* C8: a frame callback that runs no more than MARK_DEBOUNCE after the last
\* highlight does not call tryMarkCorrectAnswer and changes nothing; one that
\* runs later calls it.
C8_Debounce ==
  [][trace'.op = "frame"
       => IF now - lastMarkTimestamp <= MARK_DEBOUNCE
          THEN /\ ~trace'.invoked
               /\ ~trace'.ranToken
               /\ ~trace'.ranText
               /\ marked' = marked
               /\ lastPayload' = lastPayload
               /\ lastMarkTimestamp' = lastMarkTimestamp
          ELSE trace'.invoked]_vars

C8_Witness ==
  /\ trace.op = "frame"
  /\ ~trace.invoked
  /\ now - lastMarkTimestamp = MARK_DEBOUNCE
  /\ PendingLocatable

\* C9: an attempt on a descriptor with token and text, in a document where
\* some element carries the token in a token attribute, locates the first
\* such element in document order and does not run the text lookup.
C9_TokenBeforeText ==
  (/\ trace.invoked
   /\ Truthy(trace.payload.correctToken)
   /\ Truthy(trace.payload.correctText)
   /\ TokenElements(doc, trace.payload.correctToken) # {})
    => /\ trace.found \in TokenElements(doc, trace.payload.correctToken)
       /\ \A j \in TokenElements(doc, trace.payload.correctToken) :
            Position(doc, trace.found) <= Position(doc, j)
       /\ ~trace.ranText

C9_Witness ==
  /\ trace.invoked
  /\ Truthy(trace.payload.correctToken)
  /\ Truthy(trace.payload.correctText)
  /\ trace.found \in TokenElements(doc, trace.payload.correctToken)
  /\ \E j \in ExactCandidates(doc, trace.payload.correctText) :
       Position(doc, j) < Position(doc, trace.found)

\* C10: when the text lookup runs and some candidate's normalized text
\* equals the normalized search text, the element returned is such a
\* candidate, wherever the substring-only candidates stand.
C10_ExactBeforeSubstring ==
  (trace.ranText /\ ExactCandidates(doc, trace.payload.correctText) # {})
    => trace.found \in ExactCandidates(doc, trace.payload.correctText)

C10_Witness ==
  /\ trace.ranText
  /\ trace.found \in ExactCandidates(doc, trace.payload.correctText)
  /\ \E j \in SubstringOnlyCandidates(doc, trace.payload.correctText) :
       Position(doc, j) < Position(doc, trace.found)

\* C13: a message whose sender is not the page's own window, which has no
\* data, or whose source is not 'quiz-helper' or type not 'CORRECT' leaves
\* lastPayload, lastMarkTimestamp and the marker classes unchanged and
\* runs no lookup.
C13_OthersIgnored ==
  [][\A m \in Messages :
       (/\ ~(m.fromWindow /\ m.hasData /\ m.source = "quiz-helper" /\ m.type = "CORRECT")
        /\ ReceiveMessage(m))
         => /\ lastPayload' = lastPayload
            /\ lastMarkTimestamp' = lastMarkTimestamp
            /\ marked' = marked
            /\ ~trace'.invoked
            /\ ~trace'.ranToken
            /\ ~trace'.ranText]_vars

C13_Witness ==
  /\ trace.op = "ignored"
  /\ PendingLocatable
  /\ marked # {}
  /\ lastMarkTimestamp > 0

---------------------------------------------------------------------------
(* Properties of the page-world script *)

\* the string values under keys of the text class, in depth-first order: an
\* entry's own value before what lies inside it, before the later entries
RECURSIVE TextValues(_)
RECURSIVE TextValuesOfItems(_)
RECURSIVE TextValuesOfEntries(_)
TextValuesOfItems(items) ==
  IF items = <<>> THEN <<>>
  ELSE TextValues(Head(items)) \o TextValuesOfItems(Tail(items))

TextValuesOfEntries(entries) ==
  IF entries = <<>> THEN <<>>
  ELSE LET key == Head(entries)[1]
           value == Head(entries)[2]
           own == IF TextPattern(key) /\ value.t = "string"
                  THEN <<value.chars>> ELSE <<>>
       IN own \o TextValues(value) \o TextValuesOfEntries(Tail(entries))

TextValues(value) ==
  IF value.t = "array" THEN TextValuesOfItems(value.items)
  ELSE IF value.t = "object" THEN TextValuesOfEntries(value.entries)
  ELSE <<>>

\* the keys of a value, at every depth
RECURSIVE KeysOf(_)
KeysOf(value) ==
  IF value.t = "array"
  THEN UNION {KeysOf(value.items[i]) : i \in 1..Len(value.items)}
  ELSE IF value.t = "object"
  THEN UNION {{value.entries[i][1]} \cup KeysOf(value.entries[i][2]) :
                i \in 1..Len(value.entries)}
  ELSE {}

\* C11: for an input with a string value under a key of the text class,
\* extractCorrectInfo returns a descriptor whose correctText is the first
\* such value in depth-first order, the empty string included.
C11_FirstTextValue ==
  (info.called /\ TextValues(data) # <<>>)
    => /\ info.result.isObject
       /\ info.result.correctText = Head(TextValues(data))

\* C12: for an input none of whose keys, at any depth, matches the text or
\* the token pattern (scalars and null among them), extractCorrectInfo
\* returns null.
C12_NoMatchIsNull ==
  (info.called /\ \A key \in KeysOf(data) : ~TextPattern(key) /\ ~TokenPattern(key))
    => info.result = NoPayload

C12_Witness ==
  /\ info.called
  /\ data.t = "array"
  /\ Cardinality(KeysOf(data)) = 1
  /\ NodeCount(data) = MaxNodes
  /\ \A key \in KeysOf(data) : ~TextPattern(key) /\ ~TokenPattern(key)
  /\ info.result = NoPayload

C15_OnePostPerPayload ==
  pageTrace.fault = "none" => pageTrace.posts = NonNullInfos(pageTrace.observed)

\* C16: once the original fetch has resolved, the caller has its response:
\* there is no state in which the original has resolved and the wrapper is
\* still waiting for the body of the clone.
C16_DeliveredOnResolve ==
  fetchCall.original.kind = "resolved" => fetchCall.delivered = fetchCall.original

\* C17: for a text message that starts with '42' and contains '[', what is
\* handed to extraction is each object element of the array after the
\* prefix, one by one, and nothing else; 42["answer",{"correct_text":
\* "Berlin"}] posts the one descriptor with correctText 'Berlin' and
\* correctToken null.
C17_FramedMessage ==
  (/\ pageTrace.op = "socket"
   /\ pageTrace.original.value = "text"
   /\ StartsWith(wire.body, <<"4", "2">>)
   /\ Includes(wire.body, <<"[">>))
    => /\ \A i \in 1..Len(pageTrace.observed) :
            pageTrace.observed[i].t \in {"object", "array"}
       /\ wire.body = FrameAnswer =>
            /\ pageTrace.observed =
                 <<JObj(<< <<KeyCorrectText, JStr(<<"B", "e", "r", "l", "i", "n">>)>> >>)>>
            /\ pageTrace.fault = "none" =>
                 pageTrace.posts = <<Descriptor(<<"B", "e", "r", "l", "i", "n">>, Null)>>
       /\ wire.body = FrameTwoObjects =>
            /\ pageTrace.observed =
                 <<JObj(<< <<WordId, JNum(7)>> >>),
                   JObj(<< <<KeyCorrectText, JStr(<<"A">>)>> >>)>>
            /\ pageTrace.fault = "none" =>
                 pageTrace.posts = <<Descriptor(Null, <<"7">>), Descriptor(<<"A">>, Null)>>
       /\ wire.body = FrameMalformed => pageTrace.observed = <<>>

C17_Witness ==
  /\ pageTrace.op = "socket"
  /\ pageTrace.fault = "none"
  /\ wire.body = FrameAnswer
  /\ pageTrace.posts = <<Descriptor(<<"B", "e", "r", "l", "i", "n">>, Null)>>

---------------------------------------------------------------------------
(* Properties that join the two scripts *)

\* the node n generations above element i (NoElement above a top-level
\* element: body and html are no candidates)
RECURSIVE Ancestor(_, _, _)
Ancestor(d, i, n) ==
  IF n = 0 \/ i = NoElement THEN i ELSE Ancestor(d, d[i].parent, n - 1)

\* generations, from the element itself upwards, at which a node satisfying
\* the answer selectors stands
QualifyingGenerations(d, element, generations) ==
  {n \in 0..generations :
     /\ Ancestor(d, element, n) # NoElement
     /\ MatchesAnswerSelectors(d[Ancestor(d, element, n)])}

\* the nearest qualifying node among element and its ancestors up to the
\* given number of generations, or element when there is none
Promoted(d, element, generations) ==
  IF QualifyingGenerations(d, element, generations) = {} THEN element
  ELSE Ancestor(d, element, SetMin(QualifyingGenerations(d, element, generations)))

\* the descriptor extractCorrectInfo returns for the body {"answer_token": 42}
TokenOnly == Descriptor(Null, <<"4", "2">>)

\* C18: the payload {"answer_token": 42} is captured as the descriptor with
\* correctToken "42" and no text, and an attempt on that descriptor in a
\* document holding an element with a token attribute equal to "42" locates
\* the first such element without a text lookup and ends with exactly that
\* element, or the ancestor satisfying the answer selectors it was promoted
\* to, carrying the marker, whatever its text.
C18_NumberTokenHighlights ==
  /\ JsonParse(BodyAnswerToken).ok
  /\ extractCorrectInfo(JsonParse(BodyAnswerToken).value) = TokenOnly
  /\ (/\ trace.invoked
      /\ trace.payload = TokenOnly
      /\ TokenElements(doc, <<"4", "2">>) # {})
       => /\ trace.found \in TokenElements(doc, <<"4", "2">>)
          /\ \A j \in TokenElements(doc, <<"4", "2">>) :
               Position(doc, trace.found) <= Position(doc, j)
          /\ ~trace.ranText
          /\ trace.target # NoElement
               => /\ \E n \in 0..Cardinality(DOMAIN doc) :
                       trace.target = Ancestor(doc, trace.found, n)
                  /\ trace.target # trace.found
                       => MatchesAnswerSelectors(doc[trace.target])
                  /\ marked = {trace.target}

C18_Witness ==
  /\ trace.op = "message"
  /\ trace.received = extractCorrectInfo(JsonParse(BodyAnswerToken).value)
  /\ trace.found \in TokenElements(doc, <<"4", "2">>)
  /\ NormalizeText(ElementText(doc, trace.found)) # <<"4", "2">>
  /\ ExactCandidates(doc, <<"P", "a">>) # {}
  /\ marked = {trace.found}

\* C19: the element that receives the marker is the nearest node, among
\* the located element and its ancestors up to 6 generations above it, that
\* satisfies the answer selectors; when none of them does, it is the
\* located element itself.
C19_AncestorPromotion ==
  (trace.invoked /\ trace.target # NoElement)
    => /\ trace.target = Promoted(doc, trace.found, 6)
       /\ marked = {trace.target}

C21_ClearedOnlyOnHighlight ==
  (trace.invoked /\ trace.payload.isObject /\ lastPayload = NoPayload)
    => /\ Cardinality(marked) = 1
       /\ lastMarkTimestamp = now

---------------------------------------------------------------------------
(* Properties of the service worker *)

\* the invocations that handled a setQuiz message while nothing else ran
SetQuizAlone ==
  {c \in 1..MaxCalls : /\ calls[c].kind = "message"
                       /\ calls[c].msg.action = "setQuiz"
                       /\ \A d \in 1..MaxCalls \ {c} : calls[d].pc = "idle"}

\* C22: a setQuiz message handled on its own gets at most one response and,
\* once handled, exactly one; a response with success: true means that the
\* stored quizHighlight equals Boolean(enabled) and that the interception
\* script is registered exactly when it is true.
C22_SuccessMeansToggled ==
  \A c \in SetQuizAlone :
    /\ Len(calls[c].responses) <= 1
    /\ calls[c].pc = "done"
         => /\ Len(calls[c].responses) = 1
            /\ calls[c].responses[1].success
                 => /\ storage.quizHighlight = ToBoolean(calls[c].msg.enabled)
                    /\ registered = ToBoolean(calls[c].msg.enabled)

\* C23: once every setQuiz handler and every initQuizRegistration that was
\* started has completed, the interception script is registered exactly
\* when the stored quizHighlight is true (no chrome API failing).
C23_RegisteredIffStored ==
  (/\ faults = {}
   /\ \A c \in 1..MaxCalls : calls[c].pc \in {"idle", "done"})
    => registered = storage.quizHighlight

---------------------------------------------------------------------------
(* Further properties of the content script *)

\* C24: after an attempt on a descriptor, the lookup (token, then text) run
\* again on the unchanged document returns the element the attempt located,
\* and so does the lookup run on the document with the marker class applied.
C24_LocateIdempotent ==
  (trace.invoked /\ trace.payload.isObject)
    => /\ Locate(doc, trace.payload).element = trace.found
       /\ Locate(WithMarker(doc, marked), trace.payload).element = trace.found

C24_Witness ==
  /\ trace.invoked
  /\ trace.ranText
  /\ trace.found \in marked
  /\ CORRECT_CLASS \in WithMarker(doc, marked)[trace.found].classes
  /\ Cardinality(DOMAIN doc) > 1

---------------------------------------------------------------------------
(* Further properties of the page-world script *)

\* C25: extractCorrectInfo returns null or a descriptor of which at least
\* one of correctText, correctToken is a non-empty string; it never returns
\* a descriptor with both fields null or empty.
C25_DescriptorHasField ==
  info.called
    => \/ info.result = NoPayload
       \/ /\ info.result.isObject
          /\ Truthy(info.result.correctText) \/ Truthy(info.result.correctToken)

C25_Witness ==
  /\ info.called
  /\ info.result.isObject
  /\ info.result.correctText = <<>>
  /\ Truthy(info.result.correctToken)

\* the candidates whose normalized text contains the normalized search text
CandidateHits(d, text) ==
  {i \in DOMAIN d : /\ MatchesAnswerSelectors(d[i])
                    /\ Includes(NormalizeText(ElementText(d, i)), NormalizeText(text))}

\* the leaves among the first cap leaves of the document, in document
\* order, whose normalized text equals the normalized search text
LeafHits(d, text, cap) ==
  LET order == DocumentOrder(d)
      leafAt == {k \in 1..Len(order) : Children(d, order[k]) = {}}
  IN {order[k] : k \in {k \in leafAt :
                          /\ Cardinality({j \in leafAt : j <= k}) <= cap
                          /\ NormalizeText(ElementText(d, order[k])) = NormalizeText(text)}}

\* C26: a text lookup returns a leaf from the fallback only when no
\* candidate matches exactly or by substring; the fallback returns a leaf
\* among the first 200 elements without element children whose normalized
\* text equals the search text, never one that only contains it, and
\* otherwise the lookup returns null.
C26_LeafFallback ==
  trace.ranText
    => IF CandidateHits(doc, trace.payload.correctText) # {}
       THEN trace.found \in CandidateHits(doc, trace.payload.correctText)
       ELSE IF LeafHits(doc, trace.payload.correctText, 200) = {}
            THEN trace.found = NoElement
            ELSE trace.found \in LeafHits(doc, trace.payload.correctText, 200)

C26_Witness ==
  /\ trace.ranText
  /\ trace.found = NoElement
  /\ CandidateHits(doc, trace.payload.correctText) = {}
  /\ LeafHits(doc, trace.payload.correctText, Cardinality(DOMAIN doc)) # {}

\* the position of an element among the elements that match the answer
\* selectors, in document order
CandidateRank(d, element) ==
  LET order == DocumentOrder(d)
  IN Cardinality({k \in 1..IndexIn(order, element) : MatchesAnswerSelectors(d[order[k]])})

\* C27: an element that the answer selectors rank beyond the first 1500 is
\* returned by a text lookup only as a leaf of the fallback; the upward walk
\* inspects at most 6 nodes; and the elements one attempt examines number at
\* most what the caps add up to (1500 twice, 200 and 6), whatever the size
\* of the page.
C27_CostBoundedByCaps ==
  (trace.invoked /\ trace.payload.isObject)
    => /\ (/\ trace.ranText
           /\ trace.found # NoElement
           /\ MatchesAnswerSelectors(doc[trace.found])
           /\ CandidateRank(doc, trace.found) > 1500)
            => trace.found \in LeafHits(doc, trace.payload.correctText, 200)
       /\ trace.found # NoElement => WalkInspections(doc, trace.found, 0) <= 6
       /\ (IF trace.ranText THEN TextExaminations(doc, trace.payload.correctText) ELSE 0)
          + (IF trace.found # NoElement THEN WalkInspections(doc, trace.found, 0) ELSE 0)
            <= 1500 + 1500 + 200 + 6

\* C28: an accepted envelope that carries a descriptor is attempted in the
\* step that receives it, also inside the debounce window of the last
\* highlight and whether or not a frame is scheduled: the lookup runs on the descriptor
\* received, and when it finds an element and the class can be applied, the
\* element (or the ancestor it is promoted to) is the one highlighted at
\* the end of that step.
C28_AttemptedOnReceipt ==
  (trace.op = "message" /\ trace.received.isObject)
    => /\ trace.invoked
       /\ trace.payload = trace.received
       /\ ~trace.threw => trace.found = Locate(doc, trace.received).element
       /\ trace.target # NoElement
            => /\ trace.target = findClosestAnswer(doc, trace.found)
               /\ marked = {trace.target}
               /\ lastMarkTimestamp = now

\* a descriptor received at the time of the previous highlight, with a
\* frame scheduled, is highlighted at once
C28_Witness ==
  /\ trace.op = "message"
  /\ trace.received.isObject
  /\ now = StartNow
  /\ now - lastMarkTimestamp < MARK_DEBOUNCE
  /\ mutationScheduled
  /\ trace.target # NoElement
  /\ marked = {trace.target}

\* C29: a text lookup for a text that normalizes to the empty string (white
\* space only) finds no element, and the attempt highlights none.
C29_BlankTextFindsNothing ==
  (/\ trace.invoked
   /\ trace.payload.isObject
   /\ trace.ranText
   /\ NormalizeText(trace.payload.correctText) = <<>>)
    => /\ trace.found = NoElement
       /\ trace.target = NoElement

---------------------------------------------------------------------------
(* Further properties of the service worker *)

\* C30: every message delivered to the listener is answered by exactly one
\* sendResponse call: no run of the listener ever holds two responses, a run
\* that has ended holds one, and from any moment on there comes a moment
\* at which every run that has started holds its response.
C30_ExactlyOneResponse ==
  /\ [](\A c \in 1..MaxCalls :
          calls[c].kind = "message"
            => /\ Len(calls[c].responses) <= 1
               /\ calls[c].pc = "done" => Len(calls[c].responses) = 1)
  /\ []<>(\A c \in 1..MaxCalls :
            calls[c].kind = "message" => Len(calls[c].responses) = 1)

\* a forwarded action whose tab did not answer is reported once, next to a
\* setQuiz whose handler threw and was reported once
C30_Witness ==
  \E c, e \in 1..MaxCalls :
    /\ calls[c].pc = "done"
    /\ calls[c].forwarded
    /\ calls[c].responses = <<Failure("lastError")>>
    /\ calls[e].pc = "done"
    /\ calls[e].msg.action = "setQuiz"
    /\ calls[e].responses = <<Failure("storage")>>

\* the hostname is mangabuff.ru or the name of a host under it
OnMangabuff(hostname) ==
  \/ Lower(hostname) = HostMangabuff
  \/ /\ Len(hostname) > Len(HostMangabuff) + 1
     /\ SubSeq(Lower(hostname), Len(hostname) - Len(HostMangabuff), Len(hostname))
          = <<".">> \o HostMangabuff

\* the message names one of the seven actions and the active tab the run
\* was given exists, has a URL that parses and is on mangabuff.ru
Forwardable(call) ==
  /\ call.msg.isObject /\ call.msg.hasAction
  /\ call.msg.action \in {"startScrolling", "stopScrolling", "updateSpeed",
                          "startFarm", "stopFarm", "startMine", "stopMine"}
  /\ call.tab.present /\ call.tab.parses /\ OnMangabuff(call.tab.hostname)

\* C31 as stated, for every message of the listener: a message is sent to
\* a tab only when it is forwardable, and a run that has ended for a
\* message that is not forwardable sent nothing and answered
\* {success: false, error}.
C31_ForwardedOnlyIfValid ==
  \A c \in 1..MaxCalls :
    calls[c].kind = "message"
      => /\ calls[c].forwarded => Forwardable(calls[c])
         /\ (calls[c].pc = "done" /\ ~Forwardable(calls[c]))
              => /\ ~calls[c].forwarded
                 /\ Len(calls[c].responses) = 1
                 /\ ~calls[c].responses[1].success

\* C31 for the messages the listener routes to handleStandardAction (every
\* action but setQuiz and updateSpeed, which are answered by their own
\* handlers and never sent to a tab): the same statement.
C31_StandardForwardedOnlyIfValid ==
  \A c \in 1..MaxCalls :
    (calls[c].kind = "message" /\ calls[c].msg.action \notin {"setQuiz", "updateSpeed"})
      => /\ calls[c].forwarded => Forwardable(calls[c])
         /\ (calls[c].pc = "done" /\ ~Forwardable(calls[c]))
              => /\ ~calls[c].forwarded
                 /\ Len(calls[c].responses) = 1
                 /\ ~calls[c].responses[1].success
         /\ calls[c].pc = "sent" => calls[c].forwarded

\* startFarm was sent to a tab of www.mangabuff.ru, and another startFarm
\* was refused for a tab of notmangabuff.ru
C31_Witness ==
  \E c, e \in 1..MaxCalls :
    /\ calls[c].msg.action = "startFarm"
    /\ calls[c].forwarded
    /\ calls[c].tab.hostname = <<"w", "w", "w", ".">> \o HostMangabuff
    /\ calls[e].msg.action = "startFarm"
    /\ calls[e].pc = "done"
    /\ calls[e].tab.hostname = <<"n", "o", "t">> \o HostMangabuff
    /\ ~calls[e].forwarded
    /\ calls[e].responses = <<Failure("WRONG_DOMAIN")>>

---------------------------------------------------------------------------
(* Properties of the popup *)

\* C32: whatever the order in which the reads and the writes of the add
\* calls fall, the stored comments list never holds more than 100 entries,
\* and an add that read a full list ends without changing storage.
C32_CommentsBounded ==
  /\ [](Len(popupStorage.settings.commentsList) <= 100)
  /\ [][\A r \in 1..MaxRuns :
          (/\ popupRuns[r].kind = "add"
           /\ popupRuns[r].pc = "got"
           /\ popupRuns'[r].pc = "done"
           /\ Len(popupRuns[r].read.commentsList) >= 100)
            => popupStorage' = popupStorage]_vars

\* two adds read a list of 99: both wrote, 100 are stored; or one add read
\* the full list, showed the error and wrote nothing
C32_Witness ==
  /\ Len(popupStorage.settings.commentsList) = 100
  /\ \E r, q \in 1..MaxRuns :
       /\ r # q
       /\ popupRuns[r].pc = "done" /\ popupRuns[r].wrote
       /\ Len(popupRuns[r].read.commentsList) = 99
       /\ popupRuns[q].pc = "done"
       /\ \/ popupRuns[q].wrote /\ Len(popupRuns[q].read.commentsList) = 99
          \/ /\ ~popupRuns[q].wrote
             /\ Len(popupRuns[q].read.commentsList) = 100
             /\ popupView.errorShown

\* C33: once the click handler of startFarm has finished with a start
\* request that was answered with failure, storage does not hold
\* farmActive true (no other handler running).
C33_FarmFlagFollowsOutcome ==
  \A r \in 1..MaxRuns :
    (/\ popupRuns[r].kind = "startFarm"
     /\ popupRuns[r].pc = "done"
     /\ ~popupRuns[r].result
     /\ \A q \in 1..MaxRuns \ {r} : popupRuns[q].pc = "idle")
      => ~popupStorage.farmActive

\* the planned chapter limit the popup shows: the number typed, 0 for an
\* empty or unreadable field
PlannedLimit ==
  CASE popupView.chapterLimitInput = <<"9">> -> 9
    [] popupView.chapterLimitInput = <<"1", "0">> -> 10
    [] popupView.chapterLimitInput = <<"1", "0", ".", "5">> -> 10
    [] popupView.chapterLimitInput = <<"-", "1">> -> 0 - 1
    [] OTHER -> 0

\* auto-commenting is disabled, or the planned limit is 0, or it is at
\* least 2 + (max(1, totalComments) - 1) * max(1, interval)
ScrollAllowed ==
  LET settings == popupStorage.settings
      total == IF settings.totalComments > 1 THEN settings.totalComments ELSE 1
      interval == IF settings.interval > 1 THEN settings.interval ELSE 1
  IN \/ ~settings.present
     \/ ~settings.enabled
     \/ PlannedLimit = 0
     \/ PlannedLimit >= 2 + (total - 1) * interval

\* C34: a handler for the switch turned on writes autoScroll and sends
\* startScrolling only if the validation passes, and does both when it
\* passes; the step in which the validation fails writes nothing to
\* storage, sends nothing, turns the switch off and ends the handler.
C34_ScrollStartsOnlyIfValid ==
  /\ [](\A r \in 1..MaxRuns :
          (popupRuns[r].kind = "scroll" /\ popupRuns[r].enabled)
            => /\ (popupRuns[r].wrote \/ popupRuns[r].sent # "") => ScrollAllowed
               /\ popupRuns[r].pc = "done"
                    => IF ScrollAllowed
                       THEN popupRuns[r].wrote /\ popupRuns[r].sent = "startScrolling"
                       ELSE ~popupRuns[r].wrote /\ popupRuns[r].sent = "")
  /\ [][\A r \in 1..MaxRuns :
          (/\ popupRuns[r].kind = "scroll"
           /\ popupRuns[r].pc = "validate"
           /\ popupRuns'[r] # popupRuns[r]
           /\ ~ScrollAllowed)
            => /\ popupStorage' = popupStorage
               /\ outbox' = outbox
               /\ ~popupView'.autoScrollSwitch
               /\ popupRuns'[r].pc = "done"]_vars

\* with 5 comments every 2 chapters a limit of exactly 10 starts the
\* scrolling
C34_Witness ==
  /\ popupStorage.settings.present
  /\ popupStorage.settings.enabled
  /\ popupStorage.settings.totalComments = 5
  /\ popupStorage.settings.interval = 2
  /\ popupView.chapterLimitInput = <<"1", "0">>
  /\ popupStorage.autoScroll
  /\ \E r \in 1..MaxRuns :
       /\ popupRuns[r].kind = "scroll"
       /\ popupRuns[r].enabled
       /\ popupRuns[r].pc = "done"
       /\ popupRuns[r].wrote
       /\ popupRuns[r].sent = "startScrolling"
  /\ \E k \in 1..Len(outbox) : outbox[k] = "startScrolling"

====
